---- MODULE Spec2Model ----
(***************************************************************************)
(* hardy-har: correlation of Chrome DevTools Protocol Network.* and Page.* *)
(* events into the entries and pages of an HTTP Archive.                   *)
(*                                                                         *)
(* The program is modelled as pure operators over records that mirror the  *)
(* objects of the source (TimeLord, HarEntryBuilder, HarEntriesBuilder,    *)
(* HarPageBuilder, HarPagesBuilder, HarBuilder); the actions apply them to *)
(* the variables.  A JavaScript `undefined` is the empty tuple and a       *)
(* present value v is the one-element tuple <<v>>.  Builders are referred  *)
(* to by their index in allEntryBuilders, pages by a serial number.         *)
(* Times are integers in microseconds (the source holds seconds as         *)
(* floating point numbers).                                                *)
(***************************************************************************)
EXTENDS Integers, Sequences, FiniteSets, TLC

VARIABLES
  options,        \* HarBuilder.options
  entriesBuilder, \* HarBuilder.entriesBuilder (with its TimeLord and caches)
  pagesBuilder,   \* HarBuilder.pagesBuilder
  archive,        \* what the last getHarArchive call returned or threw
  calls,          \* number of getHarArchive calls so far
  received,       \* number of events passed to onDebuggerEvent so far
  delivered       \* history: the recorded events, in order of delivery

vars == <<options, entriesBuilder, pagesBuilder, archive, calls, received, delivered>>

undefined == <<>>
Some(v) == <<v>>

\* ------------------------------------------------------------------ helpers

RECURSIVE InsertSorted(_, _)
\* insert the pair x = <<key, element>> after every pair whose key is <= its
\* own: a stable insertion
InsertSorted(s, x) ==
  IF s = <<>> THEN <<x>>
  ELSE IF Head(s)[1] <= x[1] THEN <<Head(s)>> \o InsertSorted(Tail(s), x)
  ELSE <<x>> \o s

RECURSIVE SortPairs(_)
SortPairs(s) ==
  IF s = <<>> THEN <<>>
  ELSE InsertSorted(SortPairs(SubSeq(s, 1, Len(s) - 1)), s[Len(s)])

\* Array.prototype.sort / toSorted with the comparator
\* (a, b) => key[a] - key[b] over a sequence of builder or page numbers;
\* both are stable
SortBy(s, key) ==
  LET sorted == SortPairs([i \in 1..Len(s) |-> <<key[s[i]], s[i]>>])
  IN [i \in 1..Len(s) |-> sorted[i][2]]

Range(s) == {s[i] : i \in 1..Len(s)}

RECURSIVE Concat(_)
Concat(ss) == IF ss = <<>> THEN <<>> ELSE Head(ss) \o Concat(Tail(ss))

\* ------------------------------------------------------------------ TimeLord

MAX_VALUE == 1000000000

MIN_VALUE == 0

NewTimeLord ==
  [ earliestTimestamp |-> MAX_VALUE,
    earliestWallTimeMinusTimestamp |-> MAX_VALUE,
    largestWallTimeMinusTimestamp |-> MIN_VALUE,
    smallestWallTimeMinusTimestamp |-> MAX_VALUE ]

\* a mutation of addTimestampWallTimePair: the reference is the pair
\* recorded last
addLatestTimestampWallTimePair(tl, timestamp, wallTime) ==
  LET wallTimeMinusTimestamp == wallTime - timestamp
  IN [ earliestTimestamp |-> timestamp,
       earliestWallTimeMinusTimestamp |-> wallTimeMinusTimestamp,
       largestWallTimeMinusTimestamp |->
         IF wallTimeMinusTimestamp > tl.largestWallTimeMinusTimestamp
         THEN wallTimeMinusTimestamp ELSE tl.largestWallTimeMinusTimestamp,
       smallestWallTimeMinusTimestamp |->
         IF wallTimeMinusTimestamp < tl.smallestWallTimeMinusTimestamp
         THEN wallTimeMinusTimestamp ELSE tl.smallestWallTimeMinusTimestamp ]

addTimestampWallTimePair(tl, timestamp, wallTime) ==
  LET wallTimeMinusTimestamp == wallTime - timestamp
      first == timestamp < tl.earliestTimestamp
  IN [ earliestTimestamp |->
         IF first THEN timestamp ELSE tl.earliestTimestamp,
       earliestWallTimeMinusTimestamp |->
         IF first THEN wallTimeMinusTimestamp
         ELSE tl.earliestWallTimeMinusTimestamp,
       largestWallTimeMinusTimestamp |->
         IF wallTimeMinusTimestamp > tl.largestWallTimeMinusTimestamp
         THEN wallTimeMinusTimestamp ELSE tl.largestWallTimeMinusTimestamp,
       smallestWallTimeMinusTimestamp |->
         IF wallTimeMinusTimestamp < tl.smallestWallTimeMinusTimestamp
         THEN wallTimeMinusTimestamp ELSE tl.smallestWallTimeMinusTimestamp ]

getApproximateWallTime(tl, timestamp) ==
  tl.earliestWallTimeMinusTimestamp + timestamp

commentOnSkew(tl) ==
  IF tl.largestWallTimeMinusTimestamp < 0 THEN -1
  ELSE tl.largestWallTimeMinusTimestamp - tl.smallestWallTimeMinusTimestamp

\* ------------------------------------------------------------------ events

\* DevToolsProtocol.Network.Response, reduced to the fields the model reads
Response(status, timing, fromDiskCache, fromEarlyHints, headers) ==
  [ status |-> status, timing |-> timing, fromDiskCache |-> fromDiskCache,
    fromEarlyHints |-> fromEarlyHints, headers |-> headers,
    requestHeaders |-> undefined, headersText |-> undefined,
    protocol |-> undefined, statusText |-> "" ]

\* DevToolsProtocol.Network.ResourceTiming (requestTime in microseconds,
\* the offsets in thousandths of a millisecond)
Timing(requestTime, pushStart) ==
  [ requestTime |-> requestTime, pushStart |-> pushStart,
    receiveHeadersEnd |-> 0,
    dnsStart |-> undefined, dnsEnd |-> undefined,
    connectStart |-> undefined, connectEnd |-> undefined,
    sslStart |-> undefined, sslEnd |-> undefined,
    sendStart |-> undefined, sendEnd |-> undefined ]

\* A URL is its scheme and what follows the colon
Url(scheme, rest) == [ scheme |-> scheme, rest |-> rest ]

\* One shape for every event payload; a field an event kind does not carry
\* keeps its default.  embeddedBody is event.response.body when a body was
\* attached to the event by the client.
Event(name, requestId) ==
  [ name |-> name, requestId |-> requestId, frameId |-> undefined,
    parentFrameId |-> undefined, url |-> Url("", ""), headers |-> <<>>,
    initialPriority |-> "", timestamp |-> 0, wallTime |-> 0,
    redirectResponse |-> undefined, response |-> undefined,
    embeddedBody |-> undefined, body |-> undefined,
    canceled |-> FALSE, errorText |-> "", newPriority |-> "",
    encodedDataLength |-> 0, dataLength |-> 0, base64Encoded |-> FALSE,
    statusCode |-> undefined, headersText |-> undefined,
    blockedCookies |-> <<>>, associatedCookies |-> <<>> ]

HarNetworkEventNames ==
  { "Network.requestWillBeSent", "Network.responseReceived",
    "Network.requestWillBeSentExtraInfo", "Network.responseReceivedExtraInfo",
    "Network.requestServedFromCache", "Network.loadingFinished",
    "Network.loadingFailed", "Network.dataReceived",
    "Network.resourceChangedPriority", "Network.webSocketFrameSent",
    "Network.webSocketFrameReceived" }

HarNetworkMetaEventNames == { "Network.getResponseBodyResponse" }

HarPageEventNames ==
  { "Page.frameAttached", "Page.loadEventFired", "Page.domContentEventFired",
    "Page.frameStartedLoading", "Page.frameRequestedNavigation",
    "Page.navigatedWithinDocument" }

\* a mutation of isHarNetworkEventOrMetaEventName: every name passes
isAnyEventName(eventName) == TRUE

isHarNetworkEventOrMetaEventName(eventName) ==
  eventName \in HarNetworkEventNames \cup HarNetworkMetaEventNames

isHarPageEventName(eventName) == eventName \in HarPageEventNames

hasGetResponseBodyResponseInResponse(event) == event.embeddedBody # undefined

\* ------------------------------------------------------------------ HarEntryBuilder state

NewHarEntryBuilder(orderArrived) ==
  [ orderArrived |-> orderArrived,
    priorRedirects |-> 0,
    _requestWillBeSentEvent |-> undefined,
    redirectResponse |-> undefined,
    responseReceivedEvent |-> undefined,
    requestWillBeSentExtraInfoEvent |-> undefined,
    responseReceivedExtraInfoEvent |-> undefined,
    requestServedFromCacheEvent |-> undefined,
    loadingFinishedEvent |-> undefined,
    loadingFailedEvent |-> undefined,
    resourceChangedPriorityEvent |-> undefined,
    getResponseBodyResponse |-> undefined,
    dataReceivedEvents |-> <<>>,
    webSocketEvents |-> <<>>,
    assignedPage |-> undefined ]

\* ------------------------------------------------------------------ HarEntriesBuilder

\* calculateOnlyOnce: the flag is set before the calculation runs, so a
\* calculation that throws leaves the flag set and the result undefined
NotCalculated == [ hasBeenCalculated |-> FALSE, result |-> undefined ]
Calculated(result) == [ hasBeenCalculated |-> TRUE, result |-> result ]

\* frame ids index entryBuildersByFrameId; "" is the key of a request whose
\* requestWillBeSent carries no frameId
FrameKeys == { "", "F1", "F2" }

RequestIds == { "X", "Y" }

NewHarEntriesBuilder ==
  [ timelord |-> NewTimeLord,
    allEntryBuilders |-> <<>>,
    entryBuildersByFrameId |-> [f \in FrameKeys |-> <<>>],
    entryBuildersByRequestId |-> [r \in RequestIds |-> 0],
    harEntryCreationIndex |-> 0,
    completedHarEntryBuilders |-> NotCalculated,
    completedHarEntryBuildersSortedByRequestTime |-> NotCalculated,
    completedHarEntries |-> NotCalculated ]

\* #getOrCreateForRequestId: the entries builder after the call; the entry
\* is then allEntryBuilders[entryBuildersByRequestId[requestId]]
getOrCreateForRequestId(eb, requestId) ==
  IF eb.entryBuildersByRequestId[requestId] # 0 THEN eb
  ELSE [eb EXCEPT
          !.allEntryBuilders = Append(@, NewHarEntryBuilder(eb.harEntryCreationIndex)),
          !.entryBuildersByRequestId[requestId] = Len(eb.allEntryBuilders) + 1,
          !.harEntryCreationIndex = @ + 1]

\* a mutation of attachEmbeddedBody: only the meta event brings a body
withoutEmbeddedBody(eb, i, event) == eb

attachEmbeddedBody(eb, i, event) ==
  IF hasGetResponseBodyResponseInResponse(event)
  THEN [eb EXCEPT !.allEntryBuilders[i].getResponseBodyResponse =
          Some([body |-> event.embeddedBody, base64Encoded |-> event.base64Encoded])]
  ELSE eb

\* the test `entryBuilder._requestWillBeSentEvent != null` that tells a
\* redirected request from a first one
hasRequestWillBeSentEvent(b) == b._requestWillBeSentEvent # undefined

\* a mutation of onRequestWillBeSent: the accumulator at hand takes the
\* new request as well
onRequestWillBeSentWithoutSplit(eb0, i0, untypedEvent) ==
  LET event == [untypedEvent EXCEPT !.redirectResponse = undefined]
      frameId == IF event.frameId = undefined THEN "" ELSE event.frameId[1]
  IN [eb0 EXCEPT
        !.timelord = addTimestampWallTimePair(@, event.timestamp, event.wallTime),
        !.allEntryBuilders[i0]._requestWillBeSentEvent = Some(event),
        !.allEntryBuilders[i0].redirectResponse = untypedEvent.redirectResponse,
        !.entryBuildersByFrameId[frameId] = Append(@, i0)]

onRequestWillBeSent(eb0, i0, untypedEvent) ==
  LET requestId == untypedEvent.requestId
      redirectResponse == untypedEvent.redirectResponse
      event == [untypedEvent EXCEPT !.redirectResponse = undefined]
      frameId == IF event.frameId = undefined THEN "" ELSE event.frameId[1]
      isRedirect == hasRequestWillBeSentEvent(eb0.allEntryBuilders[i0])
      priorRedirects ==
        IF isRedirect THEN eb0.allEntryBuilders[i0].priorRedirects + 1 ELSE 0
      eb1 == IF isRedirect
             THEN getOrCreateForRequestId(
                    [eb0 EXCEPT
                       !.allEntryBuilders[i0].redirectResponse = redirectResponse,
                       !.entryBuildersByRequestId[requestId] = 0],
                    requestId)
             ELSE eb0
      i == eb1.entryBuildersByRequestId[requestId]
  IN [eb1 EXCEPT
        !.timelord = addTimestampWallTimePair(@, event.timestamp, event.wallTime),
        !.allEntryBuilders[i]._requestWillBeSentEvent = Some(event),
        !.allEntryBuilders[i].priorRedirects = priorRedirects,
        !.entryBuildersByFrameId[frameId] = Append(@, i)]

\* a mutation of onResponseReceived: the response event takes the place of
\* the extra info received before it
onResponseReceivedDroppingExtraInfo(eb, i, untypedEvent) ==
  [eb EXCEPT !.allEntryBuilders[i].responseReceivedEvent = Some(untypedEvent),
             !.allEntryBuilders[i].responseReceivedExtraInfoEvent = undefined]

\* case "Network.responseReceived"
onResponseReceived(eb, i, untypedEvent) ==
  [eb EXCEPT !.allEntryBuilders[i].responseReceivedEvent = Some(untypedEvent)]

onNetworkEvent(eb, eventName, untypedEvent) ==
  IF ~isHarNetworkEventOrMetaEventName(eventName) THEN eb
  ELSE
    LET requestId == untypedEvent.requestId
        eb0 == getOrCreateForRequestId(eb, requestId)
        i == eb0.entryBuildersByRequestId[requestId]
        eb1 == attachEmbeddedBody(eb0, i, untypedEvent)
    IN CASE eventName = "Network.requestWillBeSent" ->
              onRequestWillBeSent(eb1, i, untypedEvent)
         [] eventName = "Network.responseReceived" ->
              onResponseReceived(eb1, i, untypedEvent)
         [] eventName = "Network.requestWillBeSentExtraInfo" ->
              [eb1 EXCEPT !.allEntryBuilders[i].requestWillBeSentExtraInfoEvent = Some(untypedEvent)]
         [] eventName = "Network.responseReceivedExtraInfo" ->
              [eb1 EXCEPT !.allEntryBuilders[i].responseReceivedExtraInfoEvent = Some(untypedEvent)]
         [] eventName = "Network.requestServedFromCache" ->
              [eb1 EXCEPT !.allEntryBuilders[i].requestServedFromCacheEvent = Some(untypedEvent)]
         [] eventName = "Network.loadingFinished" ->
              [eb1 EXCEPT !.allEntryBuilders[i].loadingFinishedEvent = Some(untypedEvent)]
         [] eventName = "Network.loadingFailed" ->
              [eb1 EXCEPT !.allEntryBuilders[i].loadingFailedEvent = Some(untypedEvent)]
         [] eventName = "Network.dataReceived" ->
              [eb1 EXCEPT !.allEntryBuilders[i].dataReceivedEvents = Append(@, untypedEvent)]
         [] eventName = "Network.resourceChangedPriority" ->
              [eb1 EXCEPT !.allEntryBuilders[i].resourceChangedPriorityEvent = Some(untypedEvent)]
         [] eventName = "Network.getResponseBodyResponse" ->
              [eb1 EXCEPT !.allEntryBuilders[i].getResponseBodyResponse =
                 Some([body |-> untypedEvent.body,
                       base64Encoded |-> untypedEvent.base64Encoded])]
         [] eventName = "Network.webSocketFrameSent" ->
              [eb1 EXCEPT !.allEntryBuilders[i].webSocketEvents =
                 Append(@, [type |-> "send", event |-> untypedEvent])]
         [] eventName = "Network.webSocketFrameReceived" ->
              [eb1 EXCEPT !.allEntryBuilders[i].webSocketEvents =
                 Append(@, [type |-> "receive", event |-> untypedEvent])]
         \* the switch has no default case
         [] OTHER -> eb1

\* ------------------------------------------------------------------ headers.ts, cookies.ts

\* A Headers object is a sequence of <<name, value>> pairs with distinct
\* names, in insertion order.  String.prototype.toLowerCase on the names
\* in use:
toLowerCase(name) ==
  CASE name = "Set-Cookie" -> "set-cookie"
    [] name = "Cookie" -> "cookie"
    [] name = "Content-Length" -> "content-length"
    [] name = "Accept" -> "accept"
    [] OTHER -> name

\* the names in String.prototype.localeCompare order
NameOrder ==
  << "accept", "Accept", "content-length", "Content-Length", "cookie",
     "Cookie", "set-cookie", "Set-Cookie" >>

NameRank(name) == CHOOSE i \in 1..Len(NameOrder) : NameOrder[i] = name

HasName(headers, name) == \E i \in 1..Len(headers) : headers[i][1] = name

\* headers[name] = value on a JavaScript object: an existing key keeps its
\* position, a new key goes last
SetHeader(headers, name, value) ==
  IF HasName(headers, name)
  THEN [i \in 1..Len(headers) |->
          IF headers[i][1] = name THEN <<name, value>> ELSE headers[i]]
  ELSE Append(headers, <<name, value>>)

RECURSIVE Spread(_, _)
\* {...a, ...b}
Spread(a, b) ==
  IF b = <<>> THEN a ELSE Spread(SetHeader(a, b[1][1], b[1][2]), Tail(b))

RECURSIVE LowercaseKeys(_, _)
LowercaseKeys(acc, headers) ==
  IF headers = <<>> THEN acc
  ELSE LowercaseKeys(SetHeader(acc, toLowerCase(headers[1][1]), headers[1][2]),
                     Tail(headers))

sortHarHeadersByName(headers) ==
  LET sorted == SortPairs([i \in 1..Len(headers) |->
                             <<NameRank(headers[i].name), headers[i]>>])
  IN [i \in 1..Len(headers) |-> sorted[i][2]]

headersRecordToArrayOfHarHeaders(headers) ==
  LET lc == LowercaseKeys(<<>>, headers)
  IN sortHarHeadersByName([i \in 1..Len(lc) |->
                             [name |-> lc[i][1], value |-> lc[i][2]]])

\* the value of the first header whose name matches, case-insensitively
getHeaderValue(headers, headerToFind) ==
  LET hits == SelectSeq(headers,
                LAMBDA h : toLowerCase(h[1]) = toLowerCase(headerToFind))
  IN IF hits = <<>> THEN undefined ELSE Some(hits[1][2])

\* The cookie parser (tough-cookie) on the header values in use: the cookies
\* of a newline-delimited Set-Cookie value, of a ';'-delimited Cookie value
parseResponseCookies(header) ==
  CASE header = "s1=1" -> << [name |-> "s1", value |-> "1"] >>
    [] header = "s1=1\ns2=2" ->
         << [name |-> "s1", value |-> "1"], [name |-> "s2", value |-> "2"] >>
    [] OTHER -> <<>>

parseRequestCookies(header) ==
  CASE header = "c1=1" -> << [name |-> "c1", value |-> "1"] >>
    [] header = "c1=1; c2=2" ->
         << [name |-> "c1", value |-> "1"], [name |-> "c2", value |-> "2"] >>
    [] OTHER -> <<>>

\* parseInt(value, 10) on the Content-Length values in use; undefined is NaN
parseInt(value) ==
  CASE value = "0" -> Some(0)
    [] value = "5" -> Some(5)
    [] OTHER -> undefined

\* ------------------------------------------------------------------ HarEntryBuilder getters
\* b is a HarEntryBuilder record, opts the options, tl the TimeLord.  A getter
\* that can throw comes with a ...Throws predicate; the getter is read only
\* where its predicate is false.

isValidForPageTimeCalculations(b) == b._requestWillBeSentEvent # undefined

\* "Unexpected state with event having two types of responses."
responseThrowsTwoTypes(b) ==
  b.responseReceivedEvent # undefined /\ b.redirectResponse # undefined

_response(b) ==
  IF b.responseReceivedEvent # undefined
       /\ b.responseReceivedEvent[1].response # undefined
  THEN b.responseReceivedEvent[1].response
  ELSE b.redirectResponse

\* "Attempt to access a response even though there was no
\* responseReceivedEvent or requestWillBeSent.redirectResponse event"
responseThrowsNoResponse(b) == _response(b) = undefined

response(b) == _response(b)[1]

requestWillBeSentEvent(b) == b._requestWillBeSentEvent[1]

frameId(b) == requestWillBeSentEvent(b).frameId

responseBody(b) ==
  IF b.getResponseBodyResponse = undefined THEN undefined
  ELSE b.getResponseBodyResponse[1].body

networkResponseHeadersObj(b) ==
  IF b.responseReceivedExtraInfoEvent # undefined
  THEN b.responseReceivedExtraInfoEvent[1].headers
  ELSE response(b).headers

responseHarHeaders(b) ==
  headersRecordToArrayOfHarHeaders(networkResponseHeadersObj(b))

getResponseHeader(b, caseInsensitiveName) ==
  LET hits == SelectSeq(responseHarHeaders(b),
                LAMBDA v : toLowerCase(v.name) = toLowerCase(caseInsensitiveName))
  IN IF hits = <<>> THEN undefined ELSE Some(hits[1])

\* version?.toLowerCase().startsWith('http/1.') on the protocols in use
isHttp1x(version) == version # undefined /\ version[1] \in { "http/1.1", "HTTP/1.1" }

httpVersion(b) == response(b).protocol

\* the raw header text is held as the string itself
responseHeadersText(b) ==
  IF b.responseReceivedExtraInfoEvent # undefined
       /\ b.responseReceivedExtraInfoEvent[1].headersText # undefined
  THEN b.responseReceivedExtraInfoEvent[1].headersText
  ELSE response(b).headersText

RECURSIVE headerLinesLength(_)
\* the length of the lines `${field}: ${value}\r\n` joined
headerLinesLength(headers) ==
  IF headers = <<>> THEN 0
  ELSE Len(Head(headers)[1]) + 2 + Len(Head(headers)[2]) + 2
         + headerLinesLength(Tail(headers))

\* the length of `${protocol} ${status} ${statusText}\r\n${lines}\r\n`
calculateResponseHeaderSize(resp) ==
  Len(resp.protocol[1]) + 1 + Len(ToString(resp.status)) + 1
    + Len(resp.statusText) + 2 + headerLinesLength(resp.headers) + 2

responseHeadersSize(b) ==
  IF responseHeadersText(b) # undefined THEN Len(responseHeadersText(b)[1])
  ELSE IF isHttp1x(httpVersion(b)) /\ ~response(b).fromDiskCache
            /\ ~response(b).fromEarlyHints
  THEN calculateResponseHeaderSize(response(b))
  ELSE 0 - 1

responseEncodedDataLength(b) ==
  IF b.loadingFinishedEvent = undefined THEN undefined
  ELSE Some(b.loadingFinishedEvent[1].encodedDataLength)

responseBodySize(b) ==
  LET status == response(b).status
      contentLengthHeader == getResponseHeader(b, "Content-Length")
      contentLength ==
        IF contentLengthHeader = undefined THEN undefined
        ELSE parseInt(contentLengthHeader[1].value)
  IN IF responseBody(b) # undefined THEN responseBody(b)[1].length
     ELSE IF (status >= 100 /\ status < 200) \/ status = 204 \/ status = 304
       THEN 0
     ELSE IF contentLength # undefined THEN contentLength[1]
     ELSE -1

responseCookeHeader(b, opts) ==
  IF opts.mimicChromeHar THEN getHeaderValue(response(b).headers, "Set-Cookie")
  ELSE getHeaderValue(networkResponseHeadersObj(b), "Set-Cookie")

\* a mutation of setOfBlockedCookieNames: the blocked reasons are not looked at
namesOfBlockedCookies(b) ==
  IF b.responseReceivedExtraInfoEvent = undefined THEN {}
  ELSE LET blockedCookies == b.responseReceivedExtraInfoEvent[1].blockedCookies
       IN { blockedCookies[i].name : i \in 1..Len(blockedCookies) }

\* the names of the blockedCookies of responseReceivedExtraInfo that have at
\* least one blocked reason
setOfBlockedCookieNames(b) ==
  IF b.responseReceivedExtraInfoEvent = undefined THEN {}
  ELSE LET blockedCookies == b.responseReceivedExtraInfoEvent[1].blockedCookies
       IN { blockedCookies[i].name :
              i \in { j \in 1..Len(blockedCookies) :
                        blockedCookies[j].blockedReasons > 0 } }

responseCookies(b, opts) ==
  LET cookieHeader == responseCookeHeader(b, opts)
  IN IF cookieHeader = undefined THEN <<>>
     ELSE SelectSeq(parseResponseCookies(cookieHeader[1]),
                    LAMBDA c : c.name \notin setOfBlockedCookieNames(b))

requestId(b, opts) ==
  [ requestId |-> requestWillBeSentEvent(b).requestId,
    suffix |-> IF opts.mimicChromeHar /\ b.redirectResponse # undefined
               THEN "r" ELSE "" ]

requestHeaders(b, opts) ==
  LET extra == IF b.requestWillBeSentExtraInfoEvent = undefined THEN <<>>
               ELSE b.requestWillBeSentExtraInfoEvent[1].headers
      own == requestWillBeSentEvent(b).headers
  IN IF opts.mimicChromeHar
     THEN IF response(b).requestHeaders # undefined
          THEN response(b).requestHeaders[1]
          ELSE Spread(extra, own)
     ELSE Spread(Spread(extra,
                        IF response(b).requestHeaders = undefined THEN <<>>
                        ELSE response(b).requestHeaders[1]),
                 own)

requestHarHeaders(b, opts) ==
  headersRecordToArrayOfHarHeaders(requestHeaders(b, opts))

requestCookieHeader(b, opts) == getHeaderValue(requestHeaders(b, opts), "Cookie")

\* a mutation of requestHarCookies: the cookies of the header alone
requestCookiesOfHeaderAlone(b, opts) ==
  LET header == getHeaderValue(requestHeaders(b, opts), "Cookie")
  IN IF header = undefined THEN <<>> ELSE parseRequestCookies(header[1])

requestHarCookies(b, opts) ==
  LET header == requestCookieHeader(b, opts)
      cookiesFromHeader ==
        SelectSeq(IF header = undefined THEN <<>> ELSE parseRequestCookies(header[1]),
                  LAMBDA c : c.name \notin setOfBlockedCookieNames(b))
      associated == IF b.requestWillBeSentExtraInfoEvent = undefined THEN <<>>
                    ELSE b.requestWillBeSentExtraInfoEvent[1].associatedCookies
      unblocked == SelectSeq(associated, LAMBDA a : a.blockedReasons = 0)
      associatedCookies ==
        [i \in 1..Len(unblocked) |->
           [name |-> unblocked[i].name, value |-> unblocked[i].value]]
      associatedCookieNames == { c.name : c \in Range(associatedCookies) }
  IN SelectSeq(cookiesFromHeader, LAMBDA c : c.name \notin associatedCookieNames)
       \o associatedCookies

\* URL parsing and href leave the URLs in use as they are
requestUrl(b) == requestWillBeSentEvent(b).url

RECURSIVE sumOfDataReceivedDataLengths(_)
sumOfDataReceivedDataLengths(dataReceivedEvents) ==
  IF dataReceivedEvents = <<>> THEN 0
  ELSE Head(dataReceivedEvents).dataLength
         + sumOfDataReceivedDataLengths(Tail(dataReceivedEvents))

contentSize(b) ==
  IF Len(b.dataReceivedEvents) > 0
  THEN sumOfDataReceivedDataLengths(b.dataReceivedEvents)
  ELSE IF responseBody(b) = undefined THEN 0 ELSE responseBody(b)[1].length

\* the compression property of the content, undefined when it is left out
compression_obj(b, opts) ==
  IF opts.mimicChromeHar \/ responseEncodedDataLength(b) = undefined THEN undefined
  ELSE IF contentSize(b) - responseEncodedDataLength(b)[1] > 0
  THEN Some(contentSize(b) - responseEncodedDataLength(b)[1])
  ELSE undefined

\* the responses in use carry no encoding property of their own
responseContent(b, opts) ==
  [ size |-> contentSize(b),
    text |-> IF opts.includeTextFromResponseBody /\ responseBody(b) # undefined
             THEN Some(responseBody(b)[1].text) ELSE undefined,
    encoding |-> IF ~opts.mimicChromeHar /\ b.getResponseBodyResponse # undefined
                      /\ b.getResponseBodyResponse[1].base64Encoded
                 THEN Some("base64") ELSE undefined,
    compression |-> compression_obj(b, opts) ]

_priority(b) ==
  IF b.resourceChangedPriorityEvent # undefined
  THEN b.resourceChangedPriorityEvent[1].newPriority
  ELSE requestWillBeSentEvent(b).initialPriority

isSupportedProtocol(b, opts) ==
  LET url == requestWillBeSentEvent(b).url
  IN \/ url.scheme \in {"http", "https"}
     \/ (url.scheme \in {"ws", "wss"} /\ ~opts.mimicChromeHar)

timestamp(b) == requestWillBeSentEvent(b).timestamp

timing(b) == response(b).timing

\* "timing not set"
requestTimeThrows(b) == response(b).timing = undefined

requestTimeInSeconds(b) == response(b).timing[1].requestTime

requestStartTimeInSecondsFromUnixEpoch(b, tl) ==
  getApproximateWallTime(tl,
    IF timing(b) # undefined THEN timing(b)[1].requestTime ELSE timestamp(b))

\* new Date(seconds * 1000).toISOString(): the Date keeps whole milliseconds
\* (the fraction is dropped) and the ISO strings of two dates compare as the
\* millisecond counts do, so the count stands for the string
startedDateTime(b, tl) == requestStartTimeInSecondsFromUnixEpoch(b, tl) \div 1000

wasHttp2Push(b) ==
  (IF _response(b) # undefined /\ _response(b)[1].timing # undefined
   THEN _response(b)[1].timing[1].pushStart ELSE 0) > 0

isValidForInclusionInHarArchive(b, opts) ==
  LET hasNoRequest == b._requestWillBeSentEvent = undefined
      hasNoResponse == _response(b) = undefined
      isCancelled ==
        b.loadingFailedEvent # undefined
          /\ b.loadingFailedEvent[1].canceled
          /\ b.loadingFailedEvent[1].errorText # "net::ERR_ABORTED"
      isFromCache ==
        b.requestServedFromCacheEvent # undefined
          \/ (response(b).fromDiskCache /\ ~wasHttp2Push(b)
                /\ ~response(b).fromEarlyHints)
  IN IF hasNoRequest \/ hasNoResponse THEN FALSE
     ELSE IF isCancelled THEN FALSE
     ELSE IF ~isSupportedProtocol(b, opts) THEN FALSE
     ELSE IF ~opts.includeResourcesFromDiskCache /\ isFromCache THEN FALSE
     ELSE TRUE

\* Number(Math.max(0, time).toFixed(3)) on times that are whole thousandths
\* of a millisecond
roundToThreeDecimalPlaces(time) == IF time < 0 THEN 0 ELSE time

\* a mutation of getTimeDifference: an end before the start gives a
\* difference all the same
getTimeDifferenceUnchecked(startMs, endMs) ==
  IF startMs = undefined \/ endMs = undefined THEN undefined
  ELSE IF startMs[1] < 0 \/ endMs[1] < 0 THEN undefined
  ELSE Some(roundToThreeDecimalPlaces(endMs[1] - startMs[1]))

\* getTimeDifferenceInMillisecondsRoundedToThreeDecimalPlaces
getTimeDifference(startMs, endMs) ==
  IF startMs = undefined \/ endMs = undefined THEN undefined
  ELSE IF startMs[1] < 0 \/ endMs[1] < 0 THEN undefined
  ELSE IF endMs[1] - startMs[1] >= 0
  THEN Some(roundToThreeDecimalPlaces(endMs[1] - startMs[1]))
  ELSE undefined

\* value ?? fallback
OrElse(value, fallback) == IF value = undefined THEN fallback ELSE value[1]

\* the phases of the HAR timings object that are differences of two
\* offsets of response.timing, in thousandths of a millisecond
timings(b) ==
  LET t == response(b).timing
      at(f) == IF t = undefined THEN undefined ELSE t[1][f]
  IN [ dns |-> OrElse(getTimeDifference(at("dnsStart"), at("dnsEnd")), -1),
       connect |-> OrElse(getTimeDifference(at("connectStart"), at("connectEnd")), -1),
       send |-> OrElse(getTimeDifference(at("sendStart"), at("sendEnd")), 0),
       wait |-> OrElse(getTimeDifference(at("sendEnd"),
                         IF t = undefined THEN undefined
                         ELSE Some(t[1].receiveHeadersEnd)), 0),
       ssl |-> OrElse(getTimeDifference(at("sslStart"), at("sslEnd")), -1) ]

\* timings.receive, in thousandths of a millisecond
receive(b) ==
  LET ts == IF b.loadingFailedEvent # undefined
            THEN Some(b.loadingFailedEvent[1].timestamp)
            ELSE IF b.loadingFinishedEvent # undefined
            THEN Some(b.loadingFinishedEvent[1].timestamp)
            ELSE undefined
      receiveMs == IF timing(b) # undefined /\ ts # undefined
                   THEN (ts[1] - timing(b)[1].requestTime)
                          - timing(b)[1].receiveHeadersEnd
                   ELSE 0
  IN IF receiveMs > 0 THEN receiveMs ELSE 0

cache(b, tl) ==
  IF b.requestServedFromCacheEvent = undefined THEN undefined
  ELSE Some([lastAccess |-> startedDateTime(b, tl)])

harRequest(b, opts) ==
  [ url |-> requestUrl(b),
    cookies |-> requestHarCookies(b, opts),
    headers |-> requestHarHeaders(b, opts) ]

harResponse(b, opts) ==
  [ status |-> IF b.responseReceivedExtraInfoEvent # undefined
                    /\ b.responseReceivedExtraInfoEvent[1].statusCode # undefined
               THEN b.responseReceivedExtraInfoEvent[1].statusCode[1]
               ELSE response(b).status,
    headersSize |-> responseHeadersSize(b),
    bodySize |-> responseBodySize(b),
    content |-> responseContent(b, opts),
    cookies |-> responseCookies(b, opts),
    headers |-> responseHarHeaders(b),
    _transferSize |-> IF responseEncodedDataLength(b) # undefined
                      THEN responseEncodedDataLength(b)[1] ELSE -1,
    fromDiskCache |-> response(b).fromDiskCache,
    fromEarlyHints |-> response(b).fromEarlyHints ]

\* ------------------------------------------------------------------ HarPageBuilder, HarPagesBuilder

\* serial identifies the object: the pages builder never drops a page
\* from its stack, so the stack's length numbers the pages as they are made
NewHarPageBuilder(serial, orderCreated, frameIds) ==
  [ serial |-> serial,
    orderCreated |-> orderCreated,
    frameIds |-> frameIds,          \* a Set, kept in insertion order
    id |-> undefined,
    loadEventFiredEvent |-> undefined,
    domContentEventFiredEvent |-> undefined,
    frameStartedLoadingEvent |-> undefined,
    frameRequestedNavigationEvent |-> undefined,
    navigatedWithinDocumentEvent |-> undefined,
    earliestRequest |-> NotCalculated ]

\* byFrameId maps a frame id to the serial of its page, NoPage when the
\* Map has no such key
NoPage == 0 - 1

NewHarPagesBuilder ==
  [ byFrameId |-> [f \in FrameKeys |-> NoPage],
    pageStackWithTopAtIndex0 |-> <<>>,
    validPageBuilders |-> NotCalculated ]

\* the position in the stack of the page with the given serial
PageIndex(pb, serial) ==
  CHOOSE k \in 1..Len(pb.pageStackWithTopAtIndex0) :
    pb.pageStackWithTopAtIndex0[k].serial = serial

PageOf(pb, serial) == pb.pageStackWithTopAtIndex0[PageIndex(pb, serial)]

\* new Set(frameIds) and Set.add keep the first occurrence of each id
RECURSIVE AddAll(_, _)
AddAll(set, frameIds) ==
  IF frameIds = <<>> THEN set
  ELSE AddAll(IF Head(frameIds) \in Range(set) THEN set
              ELSE Append(set, Head(frameIds)),
              Tail(frameIds))

\* a mutation of addFrameId: the frame id is not added
withoutFrameId(page, id) == page

addFrameId(page, id) == [page EXCEPT !.frameIds = AddAll(@, <<id>>)]

getOrCreateByFrameId(pb, id) ==
  IF pb.byFrameId[id] # NoPage THEN pb
  ELSE [pb EXCEPT
          !.byFrameId[id] = Len(pb.pageStackWithTopAtIndex0) + 1,
          !.pageStackWithTopAtIndex0 =
             << NewHarPageBuilder(Len(pb.pageStackWithTopAtIndex0) + 1,
                                  Len(pb.pageStackWithTopAtIndex0) + 1, <<id>>) >> \o @]

RECURSIVE SetAll(_, _, _)
SetAll(byFrameId, frameIds, serial) ==
  IF frameIds = <<>> THEN byFrameId
  ELSE SetAll([byFrameId EXCEPT ![Head(frameIds)] = serial],
              Tail(frameIds), serial)

createForEntriesWithNoPage(pb, frameIds) ==
  [pb EXCEPT
     !.byFrameId = SetAll(@, frameIds, Len(pb.pageStackWithTopAtIndex0) + 1),
     !.pageStackWithTopAtIndex0 =
        << NewHarPageBuilder(Len(pb.pageStackWithTopAtIndex0) + 1, 0,
                             AddAll(<<>>, frameIds)) >> \o @]

\* a mutation of onTopPageOfStack: the page at the other end of the stack
onBottomPageOfStack(pb, field, untypedEvent) ==
  IF pb.pageStackWithTopAtIndex0 = <<>> THEN pb
  ELSE [pb EXCEPT !.pageStackWithTopAtIndex0[Len(pb.pageStackWithTopAtIndex0)][field] =
          Some(untypedEvent)]

\* if (topPageOfStack == null) break; topPageOfStack[field] = event
onTopPageOfStack(pb, field, untypedEvent) ==
  IF pb.pageStackWithTopAtIndex0 = <<>> THEN pb
  ELSE [pb EXCEPT !.pageStackWithTopAtIndex0[1][field] = Some(untypedEvent)]

onPageEvent(pb, eventName, untypedEvent) ==
  IF ~isHarPageEventName(eventName) THEN pb
  ELSE
    LET stack == pb.pageStackWithTopAtIndex0
        eventFrameId == untypedEvent.frameId[1]
        parentFrameId == untypedEvent.parentFrameId
        \* getOrCreateByFrameId(frameId), then the page's field is set
        withField(field) ==
          LET pb1 == getOrCreateByFrameId(pb, eventFrameId)
              k == PageIndex(pb1, pb1.byFrameId[eventFrameId])
          IN [pb1 EXCEPT !.pageStackWithTopAtIndex0[k][field] = Some(untypedEvent)]
    IN CASE eventName = "Page.frameAttached" ->
              IF parentFrameId = undefined \/ parentFrameId[1] = ""
                   \/ parentFrameId[1] = eventFrameId
              THEN getOrCreateByFrameId(pb, eventFrameId)
              ELSE IF pb.byFrameId[parentFrameId[1]] = NoPage THEN pb
              ELSE LET page == pb.byFrameId[parentFrameId[1]]
                       k == PageIndex(pb, page)
                   IN [pb EXCEPT
                         !.pageStackWithTopAtIndex0[k] = addFrameId(@, eventFrameId),
                         !.byFrameId[eventFrameId] = page]
         [] eventName = "Page.loadEventFired" ->
              onTopPageOfStack(pb, "loadEventFiredEvent", untypedEvent)
         [] eventName = "Page.domContentEventFired" ->
              onTopPageOfStack(pb, "domContentEventFiredEvent", untypedEvent)
         [] eventName = "Page.frameStartedLoading" ->
              withField("frameStartedLoadingEvent")
         [] eventName = "Page.frameRequestedNavigation" ->
              withField("frameRequestedNavigationEvent")
         [] eventName = "Page.navigatedWithinDocument" ->
              withField("navigatedWithinDocumentEvent")
         \* the switch has no default case
         [] OTHER -> pb

\* ------------------------------------------------------------------ getters of a page

\* positions in allEntryBuilders of the builders of the given frames, in
\* the order of their Network.requestWillBeSent timestamps
getHarEntriesBuildersForFrameIdsSortedByRequestSentTimeStamp(eb, frameIds) ==
  LET all == Concat([k \in 1..Len(frameIds) |-> eb.entryBuildersByFrameId[frameIds[k]]])
      usable == SelectSeq(all, LAMBDA i : isValidForPageTimeCalculations(eb.allEntryBuilders[i]))
  IN SortBy(usable, [i \in Range(usable) |-> timestamp(eb.allEntryBuilders[i])])

\* the function wrapped by #getEarliestRequest: element [0] of the list,
\* undefined when the list is empty
getEarliestRequest(eb, page) ==
  LET sorted == getHarEntriesBuildersForFrameIdsSortedByRequestSentTimeStamp(eb, page.frameIds)
  IN IF sorted = <<>> THEN undefined ELSE Some(sorted[1])

\* calculateOnlyOnce: the page after a call of #getEarliestRequest
withEarliestRequest(eb, page) ==
  IF page.earliestRequest.hasBeenCalculated THEN page
  ELSE [page EXCEPT !.earliestRequest = Calculated(getEarliestRequest(eb, page))]

\* isValid, on a page whose #getEarliestRequest has been called
isValid(page) == page.earliestRequest.result # undefined

\* earliestRequest, on a valid page
earliestRequest(eb, page) == eb.allEntryBuilders[page.earliestRequest.result[1]]

pageTimestamp(eb, page) == timestamp(earliestRequest(eb, page))

title(eb, page) ==
  IF page.frameRequestedNavigationEvent # undefined
  THEN page.frameRequestedNavigationEvent[1].url
  ELSE IF page.navigatedWithinDocumentEvent # undefined
  THEN page.navigatedWithinDocumentEvent[1].url
  ELSE requestUrl(earliestRequest(eb, page))

pageTimings(eb, page) ==
  [ onContentLoad |->
      IF page.domContentEventFiredEvent = undefined THEN 0 - 1
      ELSE page.domContentEventFiredEvent[1].timestamp - pageTimestamp(eb, page),
    onLoad |->
      IF page.loadEventFiredEvent = undefined THEN 0 - 1
      ELSE page.loadEventFiredEvent[1].timestamp - pageTimestamp(eb, page) ]

\* the errors the getters throw
TwoTypesError == "Unexpected state with event having two types of responses."
NoResponseError == "Attempt to access a response even though there was no responseReceivedEvent or requestWillBeSent.redirectResponse event"
TimingError == "timing not set"
TypeError == "TypeError: Cannot read properties of undefined"
NoError == ""

\* the error thrown by the response getter of a builder, NoError if none
responseError(b) ==
  IF responseThrowsTwoTypes(b) THEN TwoTypesError
  ELSE IF responseThrowsNoResponse(b) THEN NoResponseError
  ELSE NoError

\* the error thrown when page.page is read: startedDateTime goes through
\* the response getter of the page's earliest request
pageError(eb, page) == responseError(earliestRequest(eb, page))

harPage(eb, page) ==
  [ id |-> page.id[1],
    startedDateTime |-> startedDateTime(earliestRequest(eb, page), eb.timelord),
    title |-> title(eb, page),
    pageTimings |-> pageTimings(eb, page) ]

\* ------------------------------------------------------------------ HarBuilder.onDebuggerEvent

\* eventName.startsWith('Network.') and eventName.startsWith('Page.') on the
\* event names in use
startsWithNetwork(eventName) ==
  eventName \in HarNetworkEventNames \cup HarNetworkMetaEventNames
                  \cup { "Network.webSocketCreated" }

startsWithPage(eventName) ==
  eventName \in HarPageEventNames \cup { "Page.frameScheduledNavigation" }

\* hb is the HarBuilder: its options and its two builders
HarBuilder(opts, eb, pb) ==
  [ options |-> opts, entriesBuilder |-> eb, pagesBuilder |-> pb ]

\* a payload that is no object: a number, held as a record that says so
NonObjectPayloads == { [ typeof |-> "number" ] }

\* untypedEvent == null || typeof untypedEvent !== 'object'; the event
\* names in use are all strings
isNullOrNoObject(untypedEvent) ==
  untypedEvent = undefined \/ untypedEvent \in NonObjectPayloads

onDebuggerEvent(hb, eventName, untypedEvent) ==
  IF isNullOrNoObject(untypedEvent) THEN hb
  ELSE IF startsWithNetwork(eventName)
  THEN [hb EXCEPT !.entriesBuilder = onNetworkEvent(@, eventName, untypedEvent)]
  ELSE IF startsWithPage(eventName)
  THEN [hb EXCEPT !.pagesBuilder = onPageEvent(@, eventName, untypedEvent)]
  ELSE hb

\* ------------------------------------------------------------------ HarEntryBuilder.entry

\* a mutation of pagerefObj: the number that the page was created with
\* stands for its id
pagerefObjOfSerial(hb, b) ==
  IF b.assignedPage = undefined THEN undefined
  ELSE Some(PageOf(hb.pagesBuilder, b.assignedPage[1]).orderCreated)

pagerefObj(hb, b) ==
  IF b.assignedPage = undefined THEN undefined
  ELSE PageOf(hb.pagesBuilder, b.assignedPage[1]).id

\* the error thrown when entry is read, NoError if none
entryError(b) ==
  IF responseError(b) # NoError THEN responseError(b)
  ELSE IF requestTimeThrows(b) THEN TimingError
  ELSE NoError

\* the HAR entry of the builder at position i; the field builder records
\* which builder made the entry
\* WebSocketMessageOpcode
Utf8Text == 1
Base64EncodedBinary == 2

\* a mutation of _webSocketMessagesObj: the opcode of the frame is copied
_webSocketMessagesObjWithRawOpcode(b, opts) ==
  IF Len(b.webSocketEvents) = 0 \/ opts.mimicChromeHar THEN undefined
  ELSE Some([k \in 1..Len(b.webSocketEvents) |->
               LET type == b.webSocketEvents[k].type
                   event == b.webSocketEvents[k].event
               IN [ type |-> type,
                    opcode |-> event.response[1].opcode,
                    time |-> event.timestamp,
                    data |-> event.response[1].payloadData ]])

\* {} is undefined, {_webSocketMessages: m} is Some(m)
_webSocketMessagesObj(b, opts) ==
  IF Len(b.webSocketEvents) = 0 \/ opts.mimicChromeHar THEN undefined
  ELSE Some([k \in 1..Len(b.webSocketEvents) |->
               LET type == b.webSocketEvents[k].type
                   event == b.webSocketEvents[k].event
               IN [ type |-> type,
                    opcode |-> IF event.response[1].opcode = 1 THEN Utf8Text
                               ELSE Base64EncodedBinary,
                    time |-> event.timestamp,
                    data |-> event.response[1].payloadData ]])

entry(hb, i) ==
  LET b == hb.entriesBuilder.allEntryBuilders[i]
      tl == hb.entriesBuilder.timelord
      opts == hb.options
  IN [ builder |-> i,
       pageref |-> pagerefObj(hb, b),
       _was_pushed |-> wasHttp2Push(b),
       request |-> harRequest(b, opts),
       response |-> harResponse(b, opts),
       timings |-> timings(b),
       receive |-> receive(b),
       _webSocketMessages |-> _webSocketMessagesObj(b, opts),
       cache |-> cache(b, tl),
       startedDateTime |-> startedDateTime(b, tl),
       _requestId |-> requestId(b, opts),
       _priority |-> _priority(b),
       _requestTime |-> requestTimeInSeconds(b) ]

\* ------------------------------------------------------------------ HarBuilder.getHarArchive

\* the outcome of a step: the builder after it and the error it threw
Returns(hb) == [ hb |-> hb, error |-> NoError ]
Throws(hb, error) == [ hb |-> hb, error |-> error ]

\* the error of the first builder, in list order, for which Err gives one
RECURSIVE FirstError(_, _)
FirstError(errors, k) ==
  IF k > Len(errors) THEN NoError
  ELSE IF errors[k] # NoError THEN errors[k]
  ELSE FirstError(errors, k + 1)

\* getCompletedHarEntryBuilders(): calculateOnlyOnce marks the value as
\* calculated before the filter runs, so a throw leaves undefined cached
getCompletedHarEntryBuilders(hb) ==
  LET eb == hb.entriesBuilder
      all == eb.allEntryBuilders
      twoTypes == \E i \in 1..Len(all) : responseThrowsTwoTypes(all[i])
      valid == SelectSeq([i \in 1..Len(all) |-> i],
                 LAMBDA i : isValidForInclusionInHarArchive(all[i], hb.options))
  IN IF eb.completedHarEntryBuilders.hasBeenCalculated THEN Returns(hb)
     ELSE IF twoTypes
     THEN Throws([hb EXCEPT !.entriesBuilder.completedHarEntryBuilders =
                     Calculated(undefined)], TwoTypesError)
     ELSE Returns([hb EXCEPT !.entriesBuilder.completedHarEntryBuilders =
                     Calculated(Some(valid))])

RECURSIVE AssignAll(_, _, _)
AssignAll(all, builders, pageOf) ==
  IF builders = <<>> THEN all
  ELSE AssignAll([all EXCEPT ![Head(builders)].assignedPage = Some(pageOf[Head(builders)])],
                 Tail(builders), pageOf)

\* the body of assignEntriesToPages, r being what its call of
\* getCompletedHarEntryBuilders gave
assignCompletedToPages(r) ==
  LET hb == r.hb
      eb == hb.entriesBuilder
      pb == hb.pagesBuilder
      completed == eb.completedHarEntryBuilders.result
      builders == completed[1]
      pageBuilder(i) ==
        IF frameId(eb.allEntryBuilders[i]) = undefined THEN NoPage
        ELSE pb.byFrameId[frameId(eb.allEntryBuilders[i])[1]]
      pageless == SelectSeq(builders, LAMBDA i : pageBuilder(i) = NoPage)
      frameIds == [k \in 1..Len(pageless) |->
                     IF frameId(eb.allEntryBuilders[pageless[k]]) = undefined THEN ""
                     ELSE frameId(eb.allEntryBuilders[pageless[k]])[1]]
      pb1 == IF pageless = <<>> THEN pb ELSE createForEntriesWithNoPage(pb, frameIds)
      pageOf == [i \in Range(builders) |->
                   IF pageBuilder(i) = NoPage THEN Len(pb.pageStackWithTopAtIndex0) + 1
                   ELSE pageBuilder(i)]
  IN IF r.error # NoError THEN r
     ELSE IF completed = undefined THEN Throws(hb, TypeError)
     ELSE Returns([hb EXCEPT
            !.pagesBuilder = pb1,
            !.entriesBuilder.allEntryBuilders = AssignAll(@, builders, pageOf)])

assignEntriesToPages(hb) == assignCompletedToPages(getCompletedHarEntryBuilders(hb))

\* validPageBuilders(): the serials of the valid pages, sorted; isValid
\* calls each page's #getEarliestRequest, which is itself calculated once
validPageBuilders(hb) ==
  LET pb == hb.pagesBuilder
      eb == hb.entriesBuilder
      stack == [k \in 1..Len(pb.pageStackWithTopAtIndex0) |->
                  withEarliestRequest(eb, pb.pageStackWithTopAtIndex0[k])]
      valid == SelectSeq(stack, isValid)
      serials == [k \in 1..Len(valid) |-> valid[k].serial]
      key == [n \in Range(serials) |->
                LET page == CHOOSE q \in Range(valid) : q.serial = n
                IN IF hb.options.mimicChromeHar THEN page.orderCreated
                   ELSE pageTimestamp(eb, page)]
  IN IF pb.validPageBuilders.hasBeenCalculated THEN hb
     ELSE [hb EXCEPT !.pagesBuilder.pageStackWithTopAtIndex0 = stack,
                     !.pagesBuilder.validPageBuilders =
                        Calculated(Some(SortBy(serials, key)))]

RECURSIVE AssignIds(_, _, _)
AssignIds(pb, serials, index) ==
  IF index > Len(serials) THEN pb
  ELSE AssignIds([pb EXCEPT !.pageStackWithTopAtIndex0[PageIndex(pb, serials[index])].id =
                    Some(index)],
                 serials, index + 1)

\* the forEach of assignPageIds, over what validPageBuilders() gave; the id
\* page_n is kept as the number n
assignIdsTo(hb) ==
  [hb EXCEPT !.pagesBuilder =
     AssignIds(@, hb.pagesBuilder.validPageBuilders.result[1], 1)]

assignPageIds(hb) == assignIdsTo(validPageBuilders(hb))

\* the pages getter, once validPageBuilders has been calculated
pagesError(hb) ==
  LET serials == hb.pagesBuilder.validPageBuilders.result[1]
  IN FirstError([k \in 1..Len(serials) |->
                   pageError(hb.entriesBuilder, PageOf(hb.pagesBuilder, serials[k]))], 1)

pages(hb) ==
  LET serials == hb.pagesBuilder.validPageBuilders.result[1]
  IN [k \in 1..Len(serials) |->
        harPage(hb.entriesBuilder, PageOf(hb.pagesBuilder, serials[k]))]

\* a mutation of sortedByRequestTime: the builders stay in arrival order
leftInArrivalOrder(eb, builders) == builders

\* .sort( (a, b) => a.requestTimeInSeconds - b.requestTimeInSeconds ), when
\* no comparison throws
sortedByRequestTime(eb, builders) ==
  IF Len(builders) < 2 THEN builders
  ELSE SortBy(builders, [i \in Range(builders) |->
                           requestTimeInSeconds(eb.allEntryBuilders[i])])

\* the sort of getCompletedHarEntryBuildersSortedByRequestTime, r being
\* what its call of getCompletedHarEntryBuilders gave.  Array.sort sorts
\* the cached array of getCompletedHarEntryBuilders in place and returns
\* it.  The comparator runs only for two elements or more; of several
\* builders whose requestTimeInSeconds throws, the first in the array is
\* reported.
sortByRequestTime(r) ==
  LET hb == r.hb
      eb == hb.entriesBuilder
      completed == eb.completedHarEntryBuilders.result
      builders == completed[1]
      error == IF Len(builders) < 2 THEN NoError
               ELSE FirstError([k \in 1..Len(builders) |->
                                  entryError(eb.allEntryBuilders[builders[k]])], 1)
      sorted == sortedByRequestTime(eb, builders)
  IN IF r.error # NoError THEN r
     ELSE IF completed = undefined THEN Throws(hb, TypeError)
     ELSE IF error # NoError THEN Throws(hb, error)
     ELSE Returns([hb EXCEPT
            !.entriesBuilder.completedHarEntryBuilders = Calculated(Some(sorted)),
            !.entriesBuilder.completedHarEntryBuildersSortedByRequestTime =
               Calculated(Some(sorted))])

\* calculateOnlyOnce marks the value as calculated before the sort runs
getCompletedHarEntryBuildersSortedByRequestTime(hb) ==
  IF hb.entriesBuilder.completedHarEntryBuildersSortedByRequestTime.hasBeenCalculated
  THEN Returns(hb)
  ELSE sortByRequestTime(getCompletedHarEntryBuilders(
         [hb EXCEPT !.entriesBuilder.completedHarEntryBuildersSortedByRequestTime =
            Calculated(undefined)]))

\* the map and filter of getCompletedHarEntries, r being what its call of
\* getCompletedHarEntryBuildersSortedByRequestTime gave; entry is undefined
\* for a builder that is not valid for inclusion (any more), and those are
\* filtered out
mapToEntries(r) ==
  LET hb == r.hb
      eb == hb.entriesBuilder
      sortedValidEntryBuilders == eb.completedHarEntryBuildersSortedByRequestTime.result
      builders == sortedValidEntryBuilders[1]
      hasEntry(i) == isValidForInclusionInHarArchive(eb.allEntryBuilders[i], hb.options)
      error == FirstError([k \in 1..Len(builders) |->
                 IF responseThrowsTwoTypes(eb.allEntryBuilders[builders[k]])
                 THEN TwoTypesError
                 ELSE IF ~hasEntry(builders[k]) THEN NoError
                 ELSE entryError(eb.allEntryBuilders[builders[k]])], 1)
      kept == SelectSeq(builders, hasEntry)
      nonNullHarEntries == [k \in 1..Len(kept) |-> entry(hb, kept[k])]
  IN IF r.error # NoError THEN r
     ELSE IF sortedValidEntryBuilders = undefined THEN Throws(hb, TypeError)
     ELSE IF error # NoError THEN Throws(hb, error)
     ELSE Returns([hb EXCEPT !.entriesBuilder.completedHarEntries =
                      Calculated(Some(nonNullHarEntries))])

getCompletedHarEntries(hb) ==
  IF hb.entriesBuilder.completedHarEntries.hasBeenCalculated THEN Returns(hb)
  ELSE mapToEntries(getCompletedHarEntryBuildersSortedByRequestTime(
         [hb EXCEPT !.entriesBuilder.completedHarEntries = Calculated(undefined)]))

\* what a call of getHarArchive gives: the builder after the call, the error
\* thrown (NoError when the archive is returned) and the archive's log
Thrown(r) ==
  [ hb |-> r.hb, error |-> r.error, returned |-> FALSE,
    pages |-> <<>>, entries |-> undefined, comment |-> 0 ]

\* the return statement of getHarArchive: b is the builder when the pages
\* were read and c what getCompletedHarEntries gave
Returned(b, c) ==
  IF c.error # NoError THEN Thrown(c)
  ELSE [ hb |-> c.hb, error |-> NoError, returned |-> TRUE,
         pages |-> pages(b),
         entries |-> c.hb.entriesBuilder.completedHarEntries.result,
         comment |-> commentOnSkew(c.hb.entriesBuilder.timelord) ]

\* getHarArchive from the pages getter on
readPagesAndEntries(b) ==
  IF pagesError(b) # NoError THEN Thrown(Throws(b, pagesError(b)))
  ELSE Returned(b, getCompletedHarEntries(b))

\* getHarArchive from assignPageIds on, a being what assignEntriesToPages gave
afterAssignEntriesToPages(a) ==
  IF a.error # NoError THEN Thrown(a)
  ELSE readPagesAndEntries(assignPageIds(a.hb))

getHarArchive(hb) == afterAssignEntriesToPages(assignEntriesToPages(hb))

\* ------------------------------------------------------------------ the state machine

\* the most events delivered to one HarBuilder, and the most calls of
\* getHarArchive on it
MaxEvents == 4
MaxCalls == 2

defaultOptions ==
  [ includeResourcesFromDiskCache |-> FALSE,
    includeTextFromResponseBody |-> FALSE,
    mimicChromeHar |-> FALSE ]

\* the HarBuilder as the variables hold it
this == HarBuilder(options, entriesBuilder, pagesBuilder)

\* new HarBuilder(opts) for one of the given options; archive is what the
\* last call of getHarArchive gave and the builder it was called on, calls
\* and received count the calls and the events, delivered lists the events
\* when an action records them
Constructed(Options) ==
  /\ options \in Options
  /\ entriesBuilder = NewHarEntriesBuilder
  /\ pagesBuilder = NewHarPagesBuilder
  /\ archive = [ returned |-> FALSE, error |-> NoError, pages |-> <<>>,
                 entries |-> undefined, comment |-> 0,
                 before |-> HarBuilder(options, NewHarEntriesBuilder, NewHarPagesBuilder) ]
  /\ calls = 0
  /\ received = 0
  /\ delivered = <<>>

\* harBuilder.onDebuggerEvent(event.name, event)
OnDebuggerEventWithin(eventName, untypedEvent, bound) ==
  LET hb == onDebuggerEvent(this, eventName, untypedEvent)
  IN /\ received < bound
     /\ entriesBuilder' = hb.entriesBuilder
     /\ pagesBuilder' = hb.pagesBuilder
     /\ received' = received + 1
     /\ UNCHANGED <<options, archive, calls>>

OnDebuggerEvent(event) == OnDebuggerEventWithin(event.name, event, MaxEvents)

Deliver(event) == OnDebuggerEvent(event) /\ UNCHANGED delivered

DeliverRecorded(event) == OnDebuggerEvent(event) /\ delivered' = Append(delivered, event)

\* harBuilder.getHarArchive(), returning or throwing
GetHarArchive ==
  LET r == getHarArchive(this)
  IN /\ calls < MaxCalls
     /\ entriesBuilder' = r.hb.entriesBuilder
     /\ pagesBuilder' = r.hb.pagesBuilder
     /\ archive' = [ returned |-> r.returned, error |-> r.error, pages |-> r.pages,
                     entries |-> r.entries, comment |-> r.comment, before |-> this ]
     /\ calls' = calls + 1
     /\ UNCHANGED <<options, received, delivered>>

\* ------------------------------------------------------------------ requests and their timing

RequestWillBeSent(r, t, wallTime, id, url) ==
  [ Event("Network.requestWillBeSent", r) EXCEPT
      !.timestamp = t, !.wallTime = wallTime, !.frameId = id, !.url = url,
      !.initialPriority = "Low" ]

ResponseReceived(r, resp) ==
  [ Event("Network.responseReceived", r) EXCEPT !.response = Some(resp) ]

\* requests sent at two moments; the wall clock went back between them
OrderRequests ==
  { RequestWillBeSent(r, tw[1], tw[2], undefined, Url("https", r)) :
      r \in RequestIds, tw \in { <<1000, 51700>>, <<1200, 51200>> } }

\* responses with and without a timing object
OrderResponses ==
  { ResponseReceived(r, Response(200, tm, FALSE, FALSE, <<>>)) :
      r \in RequestIds,
      tm \in { undefined, Some(Timing(1300, 0)), Some(Timing(2400, 0)) } }

\* the events are delivered first and the archive is asked for afterwards
SendRequest == calls = 0 /\ \E event \in OrderRequests : Deliver(event)

ReceiveResponse == calls = 0 /\ \E event \in OrderResponses : Deliver(event)

InitOrder == Constructed({defaultOptions})

NextOrder == SendRequest \/ ReceiveResponse \/ GetHarArchive

SpecOrder == InitOrder /\ [][NextOrder]_vars

\* ------------------------------------------------------------------ one request and what decides its inclusion

RequestServedFromCache(r) == Event("Network.requestServedFromCache", r)

LoadingFailed(r, t, canceled, errorText) ==
  [ Event("Network.loadingFailed", r) EXCEPT
      !.timestamp = t, !.canceled = canceled, !.errorText = errorText ]

\* the first request for url A, over a supported or an unsupported scheme
InclusionRequests ==
  { RequestWillBeSent("X", 1000, 51700, undefined, Url(scheme, "A")) :
      scheme \in { "https", "ws", "ftp" } }

\* the request for url B that a redirect of the request for A leads to; it
\* carries the response to the request for A
InclusionRedirects ==
  { [ RequestWillBeSent("X", 1200, 51900, undefined, Url("https", "B")) EXCEPT
        !.redirectResponse = Some(Response(301, tm, FALSE, FALSE, <<>>)) ] :
      tm \in { undefined, Some(Timing(1300, 0)) } }

\* responses with or without a timing object, pushed or not, from the disk
\* cache or not, from early hints or not
InclusionResponses ==
  { ResponseReceived("X", Response(200, tm, fromDiskCache, fromEarlyHints, <<>>)) :
      tm \in { undefined, Some(Timing(2400, 0)), Some(Timing(2400, 1)) },
      fromDiskCache \in BOOLEAN, fromEarlyHints \in BOOLEAN }

InclusionFailures ==
  { LoadingFailed("X", 2500, canceled, errorText) :
      canceled \in BOOLEAN, errorText \in { "net::ERR_ABORTED", "net::ERR_FAILED" } }

InclusionOptions ==
  { defaultOptions,
    [defaultOptions EXCEPT !.includeResourcesFromDiskCache = TRUE],
    [defaultOptions EXCEPT !.mimicChromeHar = TRUE] }

SendFirstRequest == calls = 0 /\ \E event \in InclusionRequests : Deliver(event)

SendRedirectedRequest == calls = 0 /\ \E event \in InclusionRedirects : Deliver(event)

ReceiveAnyResponse == calls = 0 /\ \E event \in InclusionResponses : Deliver(event)

ServeFromCache == calls = 0 /\ Deliver(RequestServedFromCache("X"))

FailLoading == calls = 0 /\ \E event \in InclusionFailures : Deliver(event)

InitInclusion == Constructed(InclusionOptions)

NextInclusion ==
  \/ SendFirstRequest
  \/ SendRedirectedRequest
  \/ ReceiveAnyResponse
  \/ ServeFromCache
  \/ FailLoading
  \/ GetHarArchive

SpecInclusion == InitInclusion /\ [][NextInclusion]_vars

\* ------------------------------------------------------------------ the events of one request, in any order

\* fromUntypedDebuggerEventNameAndObjectTuples: the builder after the loop
\* over the events
RECURSIVE onDebuggerEvents(_, _)
onDebuggerEvents(hb, events) ==
  IF events = <<>> THEN hb
  ELSE onDebuggerEvents(onDebuggerEvent(hb, Head(events).name, Head(events)),
                        Tail(events))

\* HarBuilder.fromUntypedEventNameAndObjectTuples(events, opts): what a new
\* builder gives for the events
fromUntypedEventNameAndObjectTuples(events, opts) ==
  getHarArchive(onDebuggerEvents(
    HarBuilder(opts, NewHarEntriesBuilder, NewHarPagesBuilder), events))

\* two response bodies, as their text and its length
BodyA == [ text |-> "aaa", length |-> 3 ]
BodyB == [ text |-> "bbbbb", length |-> 5 ]

ReplayRequest ==
  [ RequestWillBeSent("X", 1000, 51700, undefined, Url("https", "A")) EXCEPT
      !.headers = << <<"Accept", "a">>, <<"Cookie", "c1=1">> >> ]

\* the response, with or without its body attached by the client
ReplayResponses ==
  { [ ResponseReceived("X", Response(200, Some(Timing(2400, 0)), FALSE, FALSE,
                                     << <<"Set-Cookie", "s1=1">> >>))
        EXCEPT !.embeddedBody = body ] :
      body \in { undefined, Some(BodyA) } }

ReplayRequestExtraInfo ==
  [ Event("Network.requestWillBeSentExtraInfo", "X") EXCEPT
      !.headers = << <<"cookie", "c1=1; c2=2">> >>,
      !.associatedCookies =
         << [ name |-> "c2", value |-> "2", blockedReasons |-> 0 ] >> ]

ReplayResponseExtraInfo ==
  [ Event("Network.responseReceivedExtraInfo", "X") EXCEPT
      !.headers = << <<"set-cookie", "s1=1\ns2=2">>, <<"Content-Length", "5">> >>,
      !.statusCode = Some(304),
      !.blockedCookies = << [ name |-> "s2", blockedReasons |-> 1 ] >> ]

ReplayLoadingFinished ==
  { [ Event("Network.loadingFinished", "X") EXCEPT
        !.timestamp = 2600, !.encodedDataLength = 2, !.embeddedBody = body ] :
      body \in { undefined, Some(BodyB) } }

ReplayBodies ==
  { [ Event("Network.getResponseBodyResponse", "X") EXCEPT !.body = Some(body) ] :
      body \in { BodyA, BodyB } }

ReplayOthers ==
  { RequestServedFromCache("X"),
    LoadingFailed("X", 2700, FALSE, "net::ERR_FAILED"),
    [ Event("Network.resourceChangedPriority", "X") EXCEPT !.newPriority = "High" ] }

ReplayOptions ==
  { defaultOptions,
    [defaultOptions EXCEPT !.includeResourcesFromDiskCache = TRUE,
                           !.includeTextFromResponseBody = TRUE],
    [defaultOptions EXCEPT !.mimicChromeHar = TRUE] }

\* an event of a kind that was not delivered yet
DeliverOnce(event) ==
  /\ \A k \in 1..Len(delivered) : delivered[k].name # event.name
  /\ DeliverRecorded(event)

ReplaySendRequest == calls = 0 /\ DeliverOnce(ReplayRequest)

ReplayReceiveResponse == calls = 0 /\ \E event \in ReplayResponses : DeliverOnce(event)

ReplayRequestInfo == calls = 0 /\ DeliverOnce(ReplayRequestExtraInfo)

ReplayResponseInfo == calls = 0 /\ DeliverOnce(ReplayResponseExtraInfo)

ReplayFinishLoading == calls = 0 /\ \E event \in ReplayLoadingFinished : DeliverOnce(event)

ReplayGetResponseBody == calls = 0 /\ \E event \in ReplayBodies : DeliverOnce(event)

ReplayOther == calls = 0 /\ \E event \in ReplayOthers : DeliverOnce(event)

InitReplay == Constructed(ReplayOptions)

NextReplay ==
  \/ ReplaySendRequest
  \/ ReplayReceiveResponse
  \/ ReplayRequestInfo
  \/ ReplayResponseInfo
  \/ ReplayFinishLoading
  \/ ReplayGetResponseBody
  \/ ReplayOther
  \/ GetHarArchive

SpecReplay == InitReplay /\ [][NextReplay]_vars

\* ------------------------------------------------------------------ requests of frames and the pages of the frames

PageEvent(name, id) == [ Event(name, "") EXCEPT !.frameId = Some(id) ]

\* F1 attached as a root frame (no parent, an empty parent, itself as its
\* parent), F2 attached below F1, F1 attached below F2
PagesFrameAttached ==
  { PageEvent("Page.frameAttached", "F1"),
    [ PageEvent("Page.frameAttached", "F1") EXCEPT !.parentFrameId = Some("") ],
    [ PageEvent("Page.frameAttached", "F1") EXCEPT !.parentFrameId = Some("F1") ],
    [ PageEvent("Page.frameAttached", "F2") EXCEPT !.parentFrameId = Some("F1") ],
    [ PageEvent("Page.frameAttached", "F1") EXCEPT !.parentFrameId = Some("F2") ] }

PagesFrameEvents ==
  { PageEvent("Page.frameStartedLoading", "F1"),
    PageEvent("Page.frameStartedLoading", "F2"),
    [ PageEvent("Page.frameRequestedNavigation", "F1") EXCEPT !.url = Url("https", "N") ],
    [ PageEvent("Page.navigatedWithinDocument", "F1") EXCEPT !.url = Url("https", "W") ] }

\* the events that carry no frame id and go to the page on top of the stack
PagesLoadEvents ==
  { [ Event("Page.loadEventFired", "") EXCEPT !.timestamp = 3000 ],
    [ Event("Page.domContentEventFired", "") EXCEPT !.timestamp = 2900 ] }

\* X is requested before Y, over https; Y over https or ftp; each by no
\* frame, by F1 or by F2
PagesRequests ==
  { RequestWillBeSent("X", 1000, 51700, id, Url("https", "X")) :
      id \in { undefined, Some("F1"), Some("F2") } }
  \cup
  { RequestWillBeSent("Y", 1200, 51900, id, Url(scheme, "Y")) :
      id \in { undefined, Some("F1"), Some("F2") }, scheme \in { "https", "ftp" } }

PagesResponses ==
  { ResponseReceived("X", Response(200, tm, FALSE, FALSE, <<>>)) :
      tm \in { undefined, Some(Timing(1300, 0)) } }
  \cup
  { ResponseReceived("Y", Response(200, tm, FALSE, FALSE, <<>>)) :
      tm \in { undefined, Some(Timing(2400, 0)) } }

PagesOptions == { defaultOptions, [defaultOptions EXCEPT !.mimicChromeHar = TRUE] }

AttachFrame == calls = 0 /\ \E event \in PagesFrameAttached : Deliver(event)

FrameEvent == calls = 0 /\ \E event \in PagesFrameEvents : Deliver(event)

LoadEvent == calls = 0 /\ \E event \in PagesLoadEvents : Deliver(event)

SendFrameRequest == calls = 0 /\ \E event \in PagesRequests : Deliver(event)

ReceiveFrameResponse == calls = 0 /\ \E event \in PagesResponses : Deliver(event)

InitPages == Constructed(PagesOptions)

NextPages ==
  \/ AttachFrame
  \/ FrameEvent
  \/ LoadEvent
  \/ SendFrameRequest
  \/ ReceiveFrameResponse
  \/ GetHarArchive

SpecPages == InitPages /\ [][NextPages]_vars

\* ------------------------------------------------------------------ C1

\* the builder that made an entry of the archive, as it was when
\* getHarArchive was called
BuilderOf(e) == archive.before.entriesBuilder.allEntryBuilders[e.builder]

\* the entries array of the archive the last call returned, empty when the
\* call threw or no call was made
Entries ==
  IF archive.returned /\ archive.entries # undefined THEN archive.entries[1] ELSE <<>>

\* C1: in every archive that getHarArchive returns, whatever events were
\* delivered and in whatever order, the entries array is in ascending order
\* of the entries' _requestTime.
C1_EntriesSortedByRequestTime ==
  \A i, j \in 1..Len(Entries) :
    i < j => Entries[i]._requestTime <= Entries[j]._requestTime

\* an archive of two entries with different request times, the later one
\* made by the builder that arrived first
C1_Witness ==
  /\ Len(Entries) = 2
  /\ Entries[1]._requestTime < Entries[2]._requestTime
  /\ Entries[1].builder > Entries[2].builder

\* ------------------------------------------------------------------ C2

\* C2: when Network.requestWillBeSent for X and url A was followed by a
\* Network.requestWillBeSent for X with a redirectResponse and url B and
\* then by Network.responseReceived for X, and nothing else was delivered,
\* getHarArchive returns exactly two entries with request id X: the first
\* has url A and the redirectResponse as its response, the second has url B
\* and the response of the responseReceived event.
C2_RedirectYieldsTwoEntries ==
  LET all == archive.before.entriesBuilder.allEntryBuilders
      scenario ==
        /\ calls > 0 /\ received = 3 /\ Len(all) = 2
        /\ all[1]._requestWillBeSentEvent # undefined
        /\ all[1]._requestWillBeSentEvent[1].url = Url("https", "A")
        /\ all[1].redirectResponse # undefined
        /\ all[1].responseReceivedEvent = undefined
        /\ all[2]._requestWillBeSentEvent # undefined
        /\ all[2]._requestWillBeSentEvent[1].url = Url("https", "B")
        /\ all[2].responseReceivedEvent # undefined
        /\ ~all[2].responseReceivedEvent[1].response[1].fromDiskCache
  IN scenario =>
       /\ archive.returned
       /\ Len(Entries) = 2
       /\ \A k \in 1..2 : Entries[k]._requestId.requestId = "X"
       /\ Entries[1].request.url = Url("https", "A")
       /\ Entries[1].response.status = all[1].redirectResponse[1].status
       /\ Entries[2].request.url = Url("https", "B")
       /\ Entries[2].response.status =
            all[2].responseReceivedEvent[1].response[1].status

\* ------------------------------------------------------------------ C3

\* the errors of the accessors that mark a violated contract
ContractViolationErrors == { TimingError, NoResponseError, TwoTypesError }

\* C3: whatever well-formed recognized events were delivered, in whatever
\* order, a call of getHarArchive returns an archive and raises none of
\* the contract-violation errors of the accessors.
C3_NoContractViolation ==
  calls > 0 => archive.returned /\ archive.error \notin ContractViolationErrors

\* ------------------------------------------------------------------ C4

\* C4: after a call of getHarArchive, an accumulator has an entry in the
\* archive's entries if and only if it has a Network.requestWillBeSent event
\* and a response (of responseReceived or a redirectResponse), it has no
\* Network.loadingFailed with canceled = true and an errorText other than
\* net::ERR_ABORTED, its url is http(s), or ws(s) when mimicChromeHar is
\* false, and the cache rule does not exclude it.
C4_EntryIffEligible ==
  LET all == archive.before.entriesBuilder.allEntryBuilders
      theResponse(b) ==
        IF b.responseReceivedEvent # undefined
        THEN b.responseReceivedEvent[1].response[1] ELSE b.redirectResponse[1]
      pushed(b) ==
        theResponse(b).timing # undefined /\ theResponse(b).timing[1].pushStart > 0
      excludedByCacheRule(b) ==
        /\ ~options.includeResourcesFromDiskCache
        /\ \/ b.requestServedFromCacheEvent # undefined
           \/ /\ theResponse(b).fromDiskCache
              /\ ~pushed(b)
              /\ ~theResponse(b).fromEarlyHints
      eligible(b) ==
        /\ b._requestWillBeSentEvent # undefined
        /\ b.responseReceivedEvent # undefined \/ b.redirectResponse # undefined
        /\ ~ /\ b.loadingFailedEvent # undefined
             /\ b.loadingFailedEvent[1].canceled
             /\ b.loadingFailedEvent[1].errorText # "net::ERR_ABORTED"
        /\ \/ b._requestWillBeSentEvent[1].url.scheme \in { "http", "https" }
           \/ /\ b._requestWillBeSentEvent[1].url.scheme \in { "ws", "wss" }
              /\ ~options.mimicChromeHar
        /\ ~excludedByCacheRule(b)
  IN calls > 0 =>
       \A i \in 1..Len(all) :
         (archive.returned /\ \E k \in 1..Len(Entries) : Entries[k].builder = i)
           <=> eligible(all[i])

\* ------------------------------------------------------------------ C5

\* C5: of the transactions that are eligible but for the cache rule, with
\* the default options one flagged as served from the cache (by a
\* Network.requestServedFromCache event, or by a response with fromDiskCache
\* that is neither pushed nor from early hints) is absent from the entries
\* and a pushed or early-hints response with fromDiskCache is present; with
\* includeResourcesFromDiskCache the cache-served transaction is present.
C5_CacheFiltering ==
  LET all == archive.before.entriesBuilder.allEntryBuilders
      present(i) ==
        archive.returned /\ \E k \in 1..Len(Entries) : Entries[k].builder = i
      otherwiseEligible(b) ==
        /\ b._requestWillBeSentEvent # undefined
        /\ b.responseReceivedEvent # undefined
        /\ b.redirectResponse = undefined
        /\ b.loadingFailedEvent = undefined
        /\ b._requestWillBeSentEvent[1].url.scheme = "https"
      theResponse(b) == b.responseReceivedEvent[1].response[1]
      pushedOrEarlyHints(b) ==
        \/ theResponse(b).timing # undefined /\ theResponse(b).timing[1].pushStart > 0
        \/ theResponse(b).fromEarlyHints
      servedFromCache(b) ==
        \/ b.requestServedFromCacheEvent # undefined
        \/ theResponse(b).fromDiskCache /\ ~pushedOrEarlyHints(b)
  IN calls > 0 =>
       \A i \in 1..Len(all) :
         otherwiseEligible(all[i]) =>
           /\ options = defaultOptions /\ servedFromCache(all[i]) => ~present(i)
           /\ options = defaultOptions /\ theResponse(all[i]).fromDiskCache
                /\ pushedOrEarlyHints(all[i])
                /\ all[i].requestServedFromCacheEvent = undefined
                => present(i)
           /\ options.includeResourcesFromDiskCache /\ servedFromCache(all[i])
                => present(i)

\* ------------------------------------------------------------------ C6

\* C6: for every two entries of the archive, if the timestamp of the
\* Network.requestWillBeSent event of the first is smaller than that of the
\* second, then the startedDateTime of the first is not later than that of
\* the second.
C6_StartedDateTimeFollowsTimestamp ==
  \A i, j \in 1..Len(Entries) :
    timestamp(BuilderOf(Entries[i])) < timestamp(BuilderOf(Entries[j]))
      => Entries[i].startedDateTime <= Entries[j].startedDateTime

\* ------------------------------------------------------------------ C7

\* the names of the events delivered
DeliveredNames == { delivered[k].name : k \in 1..Len(delivered) }

\* the delivered events with the two extra-info events moved to the end,
\* after Network.responseReceived
ExtraInfoLast ==
  LET isExtraInfo(event) ==
        event.name \in { "Network.requestWillBeSentExtraInfo",
                         "Network.responseReceivedExtraInfo" }
  IN SelectSeq(delivered, LAMBDA event : ~isExtraInfo(event))
       \o SelectSeq(delivered, isExtraInfo)

\* the headers and cookies of the request and of the response of each entry
\* of an archive, the error when getHarArchive threw
HeadersAndCookies(a) ==
  IF ~a.returned \/ a.entries = undefined THEN << a.error >>
  ELSE [ k \in 1..Len(a.entries[1]) |->
           [ requestHeaders |-> a.entries[1][k].request.headers,
             requestCookies |-> a.entries[1][k].request.cookies,
             responseHeaders |-> a.entries[1][k].response.headers,
             responseCookies |-> a.entries[1][k].response.cookies ] ]

\* C7: for a transaction of Network.requestWillBeSent,
\* Network.responseReceived and Network.responseReceivedExtraInfo, with or
\* without Network.requestWillBeSentExtraInfo, the request and response
\* headers and cookies of its entry are those it has when the extra-info
\* events are delivered after Network.responseReceived, wherever they were
\* delivered.
C7_ExtraInfoBeforeOrAfter ==
  ( /\ calls = 1
    /\ { "Network.requestWillBeSent", "Network.responseReceived",
         "Network.responseReceivedExtraInfo" } \subseteq DeliveredNames
    /\ DeliveredNames \subseteq
         { "Network.requestWillBeSent", "Network.responseReceived",
           "Network.responseReceivedExtraInfo",
           "Network.requestWillBeSentExtraInfo" } )
  => HeadersAndCookies(archive)
       = HeadersAndCookies(fromUntypedEventNameAndObjectTuples(ExtraInfoLast, options))

\* both extra-info events came before Network.responseReceived, and the
\* entry has the headers and the unblocked cookie of the extra info
C7_Witness ==
  /\ calls = 1 /\ Len(delivered) = 4 /\ Len(Entries) = 1
  /\ delivered[1].name = "Network.requestWillBeSentExtraInfo"
  /\ delivered[2].name = "Network.responseReceivedExtraInfo"
  /\ delivered[3].name = "Network.responseReceived"
  /\ delivered[4].name = "Network.requestWillBeSent"
  /\ Len(Entries[1].response.headers) = 2
  /\ Len(Entries[1].response.cookies) = 1
  /\ Len(Entries[1].request.cookies) = 2

\* ------------------------------------------------------------------ C8

\* one order of delivery to compare the others with
CanonicalOrder ==
  << "Network.requestWillBeSent", "Network.responseReceived",
     "Network.requestWillBeSentExtraInfo", "Network.responseReceivedExtraInfo",
     "Network.requestServedFromCache", "Network.loadingFinished",
     "Network.loadingFailed", "Network.resourceChangedPriority",
     "Network.getResponseBodyResponse" >>

\* the delivered events in that order
InCanonicalOrder ==
  LET rank(name) == CHOOSE i \in 1..Len(CanonicalOrder) : CanonicalOrder[i] = name
      sorted == SortPairs([k \in 1..Len(delivered) |->
                             << rank(delivered[k].name), delivered[k] >>])
  IN [k \in 1..Len(delivered) |-> sorted[k][2]]

\* what the caller of getHarArchive sees
Seen(a) ==
  [ returned |-> a.returned, error |-> a.error, pages |-> a.pages,
    entries |-> a.entries ]

\* C8: for a request id with one Network.requestWillBeSent and at most one
\* of each other single-valued event, every order of delivery of the events
\* gives the archive that one fixed order of the same events gives, and so
\* the same entry.
C8_AnyOrderSameEntry ==
  (calls = 1 /\ "Network.requestWillBeSent" \in DeliveredNames)
  => Seen(archive) = Seen(fromUntypedEventNameAndObjectTuples(InCanonicalOrder, options))

\* ------------------------------------------------------------------ C9

\* C9: after getHarArchive, every accumulator that is valid for inclusion
\* has its entry in the archive; an entry whose frame id the Page events
\* mapped to a page is assigned to that page, the entries whose frame id
\* is absent or was mapped to no page are all assigned to one new pageless
\* page, and no page is made when there is no such entry.
C9_EntriesAssignedToPages ==
  LET all == archive.before.entriesBuilder.allEntryBuilders
      before == archive.before.pagesBuilder
      made == Len(pagesBuilder.pageStackWithTopAtIndex0)
                - Len(before.pageStackWithTopAtIndex0)
      mapped(b) ==
        frameId(b) # undefined /\ before.byFrameId[frameId(b)[1]] # NoPage
      assigned(i) == entriesBuilder.allEntryBuilders[i].assignedPage
      pageless == { k \in 1..Len(Entries) : ~mapped(BuilderOf(Entries[k])) }
  IN calls = 1 =>
       /\ \A i \in 1..Len(all) :
            isValidForInclusionInHarArchive(all[i], options)
              => archive.returned /\ \E k \in 1..Len(Entries) : Entries[k].builder = i
       /\ \A k \in 1..Len(Entries) :
            LET i == Entries[k].builder
                serial == IF mapped(all[i]) THEN before.byFrameId[frameId(all[i])[1]]
                          ELSE Len(before.pageStackWithTopAtIndex0) + 1
            IN /\ assigned(i) = Some(serial)
               /\ Entries[k].pageref # undefined
               /\ Entries[k].pageref = PageOf(pagesBuilder, serial).id
       /\ made = IF pageless = {} THEN 0 ELSE 1

\* ------------------------------------------------------------------ C10

\* C10: the pages array of the archive has one page for each page builder
\* that has an accumulator with a Network.requestWillBeSent event among its
\* frame ids and no other page, and the ids of its pages are page_1 to
\* page_n in the order of the array.
C10_PagesAreThePagesWithRequests ==
  LET stack == pagesBuilder.pageStackWithTopAtIndex0
      hasRequest(page) ==
        \E k \in 1..Len(page.frameIds) :
          \E i \in Range(entriesBuilder.entryBuildersByFrameId[page.frameIds[k]]) :
            entriesBuilder.allEntryBuilders[i]._requestWillBeSentEvent # undefined
      withRequests == { j \in 1..Len(stack) : hasRequest(stack[j]) }
  IN calls = 1 =>
       /\ archive.returned
       /\ Len(archive.pages) = Cardinality(withRequests)
       /\ \A j \in withRequests :
            /\ stack[j].id # undefined
            /\ stack[j].id[1] \in 1..Len(archive.pages)
            /\ archive.pages[stack[j].id[1]] = harPage(entriesBuilder, stack[j])
       /\ \A j1, j2 \in withRequests : j1 # j2 => stack[j1].id # stack[j2].id
       /\ \A k \in 1..Len(archive.pages) : archive.pages[k].id = k


\* ------------------------------------------------------------------ two pages and the order of their requests

\* the most events delivered where two pages with a response each are made
MaxPageOrderEvents == 5

PageOrderFrameEvents ==
  { PageEvent("Page.frameStartedLoading", "F1"),
    PageEvent("Page.frameStartedLoading", "F2") }

\* X is requested before Y; X by no frame or by F1, Y by F2
PageOrderRequests ==
  { RequestWillBeSent("X", 1000, 51700, id, Url("https", "X")) :
      id \in { undefined, Some("F1") } }
  \cup { RequestWillBeSent("Y", 1200, 51900, Some("F2"), Url("https", "Y")) }

\* the request for X goes out at once or after the request for Y: its
\* requestTime is before or after that of Y
PageOrderResponses ==
  { ResponseReceived("X", Response(200, Some(Timing(tm, 0)), FALSE, FALSE, <<>>)) :
      tm \in { 1100, 2400 } }
  \cup { ResponseReceived("Y", Response(200, Some(Timing(1300, 0)), FALSE, FALSE, <<>>)) }

DeliverPageOrder(event) ==
  OnDebuggerEventWithin(event.name, event, MaxPageOrderEvents) /\ UNCHANGED delivered

StartLoadingFrame == calls = 0 /\ \E event \in PageOrderFrameEvents : DeliverPageOrder(event)

SendPageRequest == calls = 0 /\ \E event \in PageOrderRequests : DeliverPageOrder(event)

ReceivePageResponse == calls = 0 /\ \E event \in PageOrderResponses : DeliverPageOrder(event)

InitPageOrder == Constructed(PagesOptions)

NextPageOrder ==
  \/ StartLoadingFrame
  \/ SendPageRequest
  \/ ReceivePageResponse
  \/ GetHarArchive

SpecPageOrder == InitPageOrder /\ [][NextPageOrder]_vars

\* ------------------------------------------------------------------ C11

\* the page builder that made the page with id page_k
BuilderOfPage(k) ==
  CHOOSE page \in Range(pagesBuilder.pageStackWithTopAtIndex0) : page.id = Some(k)

\* C11: in the archive that getHarArchive returns, with mimicChromeHar false
\* the startedDateTime of the pages does not decrease along the pages
\* array; with mimicChromeHar true the pages are in the order in which
\* their page builders were created.
C11_PagesOrderedByAnchorTime ==
  (calls = 1 /\ archive.returned) =>
    \A i, j \in 1..Len(archive.pages) :
      i < j =>
        IF options.mimicChromeHar
        THEN BuilderOfPage(archive.pages[i].id).serial
               < BuilderOfPage(archive.pages[j].id).serial
        ELSE archive.pages[i].startedDateTime <= archive.pages[j].startedDateTime


\* ------------------------------------------------------------------ C12

\* C12: a Page.frameAttached event whose parentFrameId is absent, empty or
\* the frameId itself puts a new page that owns frameId on top of the page
\* stack and indexes frameId to it, unless frameId is indexed already, and
\* then nothing changes; an event with another parentFrameId that is
\* indexed to a page adds frameId to the frame ids of that page and indexes
\* frameId to it, the stack being otherwise as before; an event whose
\* parentFrameId is indexed to no page leaves the index and the stack as
\* they are.
C12_FrameAttached ==
  [][\A event \in PagesFrameAttached :
       (calls = 0 /\ Deliver(event)) =>
         LET id == event.frameId[1]
             parent == event.parentFrameId
             before == pagesBuilder.pageStackWithTopAtIndex0
             after == pagesBuilder'.pageStackWithTopAtIndex0
             isRoot == parent = undefined \/ parent[1] = "" \/ parent[1] = id
             owner == pagesBuilder.byFrameId[parent[1]]
         IN IF isRoot
            THEN IF pagesBuilder.byFrameId[id] # NoPage
                 THEN pagesBuilder' = pagesBuilder
                 ELSE /\ Len(after) = Len(before) + 1
                      /\ Tail(after) = before
                      /\ after[1].frameIds = <<id>>
                      /\ \A k \in 1..Len(before) : before[k].serial # after[1].serial
                      /\ pagesBuilder'.byFrameId =
                           [pagesBuilder.byFrameId EXCEPT ![id] = after[1].serial]
            ELSE IF owner # NoPage
            THEN /\ Len(after) = Len(before)
                 /\ \A k \in 1..Len(before) :
                      IF before[k].serial = owner
                      THEN /\ id \in Range(after[k].frameIds)
                           /\ Range(after[k].frameIds) = Range(before[k].frameIds) \cup {id}
                           /\ [after[k] EXCEPT !.frameIds = <<>>]
                                = [before[k] EXCEPT !.frameIds = <<>>]
                      ELSE after[k] = before[k]
                 /\ pagesBuilder'.byFrameId =
                      [pagesBuilder.byFrameId EXCEPT ![id] = owner]
            ELSE pagesBuilder' = pagesBuilder]_vars

\* F2 was attached below F1, whose page now owns both frames and is
\* indexed under both
C12_Witness ==
  /\ calls = 0
  /\ \E page \in Range(pagesBuilder.pageStackWithTopAtIndex0) :
       /\ page.frameIds = << "F1", "F2" >>
       /\ pagesBuilder.byFrameId["F1"] = page.serial
       /\ pagesBuilder.byFrameId["F2"] = page.serial


\* ------------------------------------------------------------------ events of any name, before and after getHarArchive

\* names that are not among those the builders handle
UnrecognizedEventNames ==
  { "Network.webSocketCreated", "Page.frameScheduledNavigation",
    "Runtime.consoleAPICalled" }

\* what onDebuggerEvent is called with: an event name and a payload
Input(eventName, untypedEvent) == [ name |-> eventName, payload |-> untypedEvent ]

SessionRequests ==
  { Input("Network.requestWillBeSent",
          RequestWillBeSent("X", 1000, 51700, undefined, Url("https", "X"))),
    Input("Network.requestWillBeSent",
          RequestWillBeSent("Y", 900, 50000, undefined, Url("https", "Y"))) }

SessionResponses ==
  { Input("Network.responseReceived",
          ResponseReceived("X", Response(200, Some(Timing(1300, 0)), FALSE, FALSE, <<>>))) }

SessionPageEvents ==
  { Input("Page.loadEventFired",
          [ Event("Page.loadEventFired", "") EXCEPT !.timestamp = 3000 ]) }

\* payloads with the fields of a request and of a frame under names that
\* are not recognized
SessionUnrecognized ==
  { Input(eventName, [ PageEvent(eventName, "F1") EXCEPT !.requestId = "Y" ]) :
      eventName \in UnrecognizedEventNames }

\* recognized names with null and with a number for the payload
SessionNoObjects ==
  { Input("Network.requestWillBeSent", undefined),
    Input("Page.frameStartedLoading", [ typeof |-> "number" ]) }

\* harBuilder.onDebuggerEvent(input.name, input.payload), at any time
DeliverInput(input) ==
  /\ OnDebuggerEventWithin(input.name, input.payload, MaxEvents)
  /\ delivered' = Append(delivered, input)

SessionSendRequest ==
  /\ received < MaxEvents
  /\ \E input \in SessionRequests : DeliverInput(input)

SessionReceiveResponse ==
  /\ received < MaxEvents
  /\ \E input \in SessionResponses : DeliverInput(input)

SessionPageEvent ==
  /\ received < MaxEvents
  /\ \E input \in SessionPageEvents : DeliverInput(input)

SessionUnrecognizedEvent ==
  /\ received < MaxEvents
  /\ \E input \in SessionUnrecognized : DeliverInput(input)

SessionNoObject ==
  /\ received < MaxEvents
  /\ \E input \in SessionNoObjects : DeliverInput(input)

InitSession == Constructed({defaultOptions})

NextSession ==
  \/ SessionSendRequest
  \/ SessionReceiveResponse
  \/ SessionPageEvent
  \/ SessionUnrecognizedEvent
  \/ SessionNoObject
  \/ GetHarArchive

SpecSession == InitSession /\ [][NextSession]_vars

\* ------------------------------------------------------------------ C13

\* C13: a call of onDebuggerEvent with an event name that is none of the
\* recognized Network.* and Page.* names and not the meta event name, or
\* with a payload that is null or no object, leaves the entries builder
\* (the accumulator list, the request id index, the frame id index, the
\* TimeLord) and the pages builder (the frame id index, the page stack) as
\* they were.
C13_UnrecognizedEventsIgnored ==
  [][\A input \in SessionUnrecognized \cup SessionNoObjects :
       DeliverInput(input) =>
         /\ entriesBuilder' = entriesBuilder
         /\ pagesBuilder' = pagesBuilder]_vars

\* after a request for X, events for Y under each of the unrecognized names
\* were delivered, and there is still the one accumulator and no page
C13_Witness ==
  /\ Len(delivered) = 4
  /\ delivered[1].name = "Network.requestWillBeSent"
  /\ delivered[1].payload # undefined
  /\ { delivered[k].name : k \in 2..4 } = UnrecognizedEventNames
  /\ Len(entriesBuilder.allEntryBuilders) = 1
  /\ entriesBuilder.entryBuildersByRequestId["Y"] = 0
  /\ pagesBuilder = NewHarPagesBuilder


\* ------------------------------------------------------------------ C14

\* the response body an event carries: the body of the meta event, and
\* response.body of any other event
CarriedBody(event) ==
  IF event.name = "Network.getResponseBodyResponse" THEN event.body
  ELSE event.embeddedBody

\* the body carried by the last delivered event that carries one
RECURSIVE LastCarriedBody(_)
LastCarriedBody(events) ==
  IF events = <<>> THEN undefined
  ELSE IF CarriedBody(events[Len(events)]) # undefined
  THEN CarriedBody(events[Len(events)])
  ELSE LastCarriedBody(SubSeq(events, 1, Len(events) - 1))

C15_LaterArchiveEqualsFirst ==
  [][(calls >= 1 /\ calls' = calls + 1 /\ archive.returned)
       => Seen(archive') = Seen(archive)]_vars


\* ------------------------------------------------------------------ one response, its status, its sizes and its body

\* the most events delivered in SpecBody
MaxBodyEvents == 5

BodyRequest == RequestWillBeSent("X", 1000, 51700, undefined, Url("https", "X"))

\* responses with a status that has no content or has content, without a
\* Content-Length or with one that parses or does not; and responses with
\* the text of the headers or with the HTTP/1.1 protocol
BodyResponses ==
  { ResponseReceived("X",
      [ Response(status, Some(Timing(1300, 0)), FALSE, FALSE, headers) EXCEPT
          !.statusText = "OK" ]) :
      status \in { 100, 200, 204, 304 },
      headers \in { <<>>, << <<"Content-Length", "5">> >>,
                    << <<"content-length", "abc">> >> } }
  \cup
  { ResponseReceived("X",
      [ Response(status, Some(Timing(1300, 0)), FALSE, FALSE, <<>>) EXCEPT
          !.headersText = sized[1], !.protocol = sized[2], !.statusText = "OK" ]) :
      status \in { 200, 304 },
      sized \in { <<Some("HTTP/1.1 200 OK"), undefined>>,
                  <<undefined, Some("http/1.1")>> } }

\* the extra information on the response: the status code that was sent and
\* the headers as sent
BodyResponseExtraInfo ==
  { [ Event("Network.responseReceivedExtraInfo", "X") EXCEPT
        !.statusCode = Some(statusCode), !.headers = headers ] :
      statusCode \in { 200, 304 },
      headers \in { <<>>, << <<"content-length", "5">> >> } }

BodyLoadingFinished ==
  { [ Event("Network.loadingFinished", "X") EXCEPT
        !.timestamp = 2600, !.encodedDataLength = encodedDataLength ] :
      encodedDataLength \in { 2, 40 } }

BodyCaptured ==
  [ Event("Network.getResponseBodyResponse", "X") EXCEPT !.body = Some(BodyA) ]

DeliverBody(event) ==
  /\ OnDebuggerEventWithin(event.name, event, MaxBodyEvents)
  /\ UNCHANGED delivered

BodySendRequest == calls = 0 /\ DeliverBody(BodyRequest)

BodyReceiveResponse == calls = 0 /\ \E event \in BodyResponses : DeliverBody(event)

BodyResponseInfo == calls = 0 /\ \E event \in BodyResponseExtraInfo : DeliverBody(event)

BodyFinishLoading == calls = 0 /\ \E event \in BodyLoadingFinished : DeliverBody(event)

BodyGetResponseBody == calls = 0 /\ DeliverBody(BodyCaptured)

InitBody ==
  Constructed({ defaultOptions, [defaultOptions EXCEPT !.mimicChromeHar = TRUE] })

NextBody ==
  \/ BodySendRequest
  \/ BodyReceiveResponse
  \/ BodyResponseInfo
  \/ BodyFinishLoading
  \/ BodyGetResponseBody
  \/ GetHarArchive

SpecBody == InitBody /\ [][NextBody]_vars

\* ------------------------------------------------------------------ C16

\* the Content-Length among the headers of a response of the archive, when
\* there is one and it parses
ContentLengthOf(harResponseOfEntry) ==
  LET hits == SelectSeq(harResponseOfEntry.headers,
                        LAMBDA h : h.name = "content-length")
  IN IF hits = <<>> THEN undefined ELSE parseInt(hits[1].value)

\* 1xx, 204 and 304
HasNoContent(status) == (status >= 100 /\ status < 200) \/ status \in { 204, 304 }

\* C16: with mimicChromeHar false, response.bodySize of an entry is the
\* length of the captured body when one was captured; otherwise 0 when the
\* status of the response is 1xx, 204 or 304; otherwise the value of the
\* Content-Length response header when it parses as an integer; otherwise
\* -1.  A 304 response without a captured body and without a Content-Length
\* has bodySize 0.
C16_BodySizeDefaultMode ==
  ~options.mimicChromeHar =>
    \A k \in 1..Len(Entries) :
      LET r == Entries[k].response
          captured == BuilderOf(Entries[k]).getResponseBodyResponse
      IN r.bodySize =
           IF captured # undefined THEN captured[1].body[1].length
           ELSE IF HasNoContent(r.status) THEN 0
           ELSE IF ContentLengthOf(r) # undefined THEN ContentLengthOf(r)[1]
           ELSE -1


\* ------------------------------------------------------------------ C17

\* a header size that could not be calculated (-1) counts as none
KnownSize(size) == IF size < 0 THEN 0 ELSE size

\* C17: with mimicChromeHar true, response.bodySize of an entry whose
\* request finished loading is the encodedDataLength of
\* Network.loadingFinished minus the size of the response headers, and -1
\* when that difference is negative.
C17_BodySizeLegacyMode ==
  options.mimicChromeHar =>
    \A k \in 1..Len(Entries) :
      LET r == Entries[k].response
          finished == BuilderOf(Entries[k]).loadingFinishedEvent
      IN finished # undefined =>
           r.bodySize =
             IF finished[1].encodedDataLength - KnownSize(r.headersSize) < 0 THEN -1
             ELSE finished[1].encodedDataLength - KnownSize(r.headersSize)


\* ------------------------------------------------------------------ the sources of the request headers

\* the most events delivered in SpecHeaders
MaxHeaderEvents == 3

\* one header, spelled in lower case or capitalized, or none
AcceptHeaders(value) ==
  { <<>>, << <<"accept", value>> >>, << <<"Accept", value>> >> }

HeadersRequests ==
  { [ RequestWillBeSent("X", 1000, 51700, undefined, Url("https", "X")) EXCEPT
        !.headers = headers ] : headers \in AcceptHeaders("own") }

HeadersRequestExtraInfo ==
  { [ Event("Network.requestWillBeSentExtraInfo", "X") EXCEPT !.headers = headers ] :
      headers \in AcceptHeaders("extra") }

\* responses without requestHeaders and with them
HeadersResponses ==
  { ResponseReceived("X", Response(200, Some(Timing(1300, 0)), FALSE, FALSE, <<>>)) }
  \cup
  { ResponseReceived("X",
      [ Response(200, Some(Timing(1300, 0)), FALSE, FALSE, <<>>) EXCEPT
          !.requestHeaders = Some(headers) ]) :
      headers \in AcceptHeaders("response") }

DeliverHeaders(event) ==
  /\ OnDebuggerEventWithin(event.name, event, MaxHeaderEvents)
  /\ UNCHANGED delivered

HeadersSendRequest == calls = 0 /\ \E event \in HeadersRequests : DeliverHeaders(event)

HeadersRequestInfo ==
  calls = 0 /\ \E event \in HeadersRequestExtraInfo : DeliverHeaders(event)

HeadersReceiveResponse ==
  calls = 0 /\ \E event \in HeadersResponses : DeliverHeaders(event)

InitHeaders ==
  Constructed({ defaultOptions, [defaultOptions EXCEPT !.mimicChromeHar = TRUE] })

NextHeaders ==
  \/ HeadersSendRequest
  \/ HeadersRequestInfo
  \/ HeadersReceiveResponse
  \/ GetHarArchive

SpecHeaders == InitHeaders /\ [][NextHeaders]_vars

\* ------------------------------------------------------------------ C18

\* the request header sources of the builder of an entry, the one of the
\* highest precedence first: the headers of Network.requestWillBeSent, the
\* requestHeaders of the response, the headers of
\* Network.requestWillBeSentExtraInfo
SourcesByPrecedence(b) ==
  LET event == b._requestWillBeSentEvent[1]
      resp == b.responseReceivedEvent[1].response[1]
      extra == b.requestWillBeSentExtraInfoEvent
  IN << event.headers,
        IF resp.requestHeaders = undefined THEN <<>> ELSE resp.requestHeaders[1],
        IF extra = undefined THEN <<>> ELSE extra[1].headers >>

\* the values a name has in a source, whatever the letter case
ValuesIn(headers, name) ==
  { headers[i][2] : i \in { j \in 1..Len(headers) : toLowerCase(headers[j][1]) = name } }

\* C18: with mimicChromeHar false, for every header name taken without
\* regard to letter case, request.headers of an entry has the name once,
\* with the value of the source of the highest precedence that has it
\* (requestWillBeSentExtraInfo headers < the response's requestHeaders <
\* requestWillBeSent headers), also when the sources spell the name with
\* different letter case.
C18_RequestHeaderPrecedence ==
  ~options.mimicChromeHar =>
    \A k \in 1..Len(Entries) :
      LET sources == SourcesByPrecedence(BuilderOf(Entries[k]))
          having == { i \in 1..3 : ValuesIn(sources[i], "accept") # {} }
          listed == { i \in 1..Len(Entries[k].request.headers) :
                        toLowerCase(Entries[k].request.headers[i].name) = "accept" }
      IN IF having = {} THEN listed = {}
         ELSE LET first == CHOOSE i \in having : \A j \in having : i <= j
              IN /\ Cardinality(listed) = 1
                 /\ \A i \in listed :
                      Entries[k].request.headers[i].value \in ValuesIn(sources[first], "accept")


\* ------------------------------------------------------------------ cookies sent and cookies set

\* the most events delivered in SpecCookies
MaxCookieEvents == 4

CookiesRequests ==
  { [ RequestWillBeSent("X", 1000, 51700, undefined, Url("https", "X")) EXCEPT
        !.headers = headers ] :
      headers \in { <<>>, << <<"Cookie", "c1=1; c2=2">> >> } }

\* associated cookies that were sent (no blocked reason) and that were not;
\* the record of an associated cookie differs from the one parsed from the
\* header
CookiesRequestExtraInfo ==
  { [ Event("Network.requestWillBeSentExtraInfo", "X") EXCEPT
        !.headers = headers, !.associatedCookies = associatedCookies ] :
      headers \in { <<>>, << <<"cookie", "c1=1; c2=2">> >> },
      associatedCookies \in
        { <<>>,
          << [ name |-> "c2", value |-> "2 of the store", blockedReasons |-> 0 ] >>,
          << [ name |-> "c2", value |-> "2 of the store", blockedReasons |-> 1 ] >>,
          << [ name |-> "c1", value |-> "1 of the store", blockedReasons |-> 0 ],
             [ name |-> "c3", value |-> "3 of the store", blockedReasons |-> 2 ] >> } }

CookiesResponses ==
  { ResponseReceived("X", Response(200, Some(Timing(1300, 0)), FALSE, FALSE, headers)) :
      headers \in { <<>>, << <<"Set-Cookie", "s1=1">> >>,
                    << <<"Set-Cookie", "s1=1\ns2=2">> >> } }

\* blockedCookies items with and without a blocked reason
CookiesResponseExtraInfo ==
  { [ Event("Network.responseReceivedExtraInfo", "X") EXCEPT
        !.headers = headers, !.blockedCookies = blockedCookies ] :
      headers \in { <<>>, << <<"set-cookie", "s1=1\ns2=2">> >> },
      blockedCookies \in
        { <<>>,
          << [ name |-> "s2", blockedReasons |-> 1 ] >>,
          << [ name |-> "s2", blockedReasons |-> 0 ] >>,
          << [ name |-> "s1", blockedReasons |-> 0 ],
             [ name |-> "c1", blockedReasons |-> 1 ] >> } }

DeliverCookies(event) ==
  /\ OnDebuggerEventWithin(event.name, event, MaxCookieEvents)
  /\ UNCHANGED delivered

CookiesSendRequest == calls = 0 /\ \E event \in CookiesRequests : DeliverCookies(event)

CookiesRequestInfo ==
  calls = 0 /\ \E event \in CookiesRequestExtraInfo : DeliverCookies(event)

CookiesReceiveResponse ==
  calls = 0 /\ \E event \in CookiesResponses : DeliverCookies(event)

CookiesResponseInfo ==
  calls = 0 /\ \E event \in CookiesResponseExtraInfo : DeliverCookies(event)

InitCookies ==
  Constructed({ defaultOptions, [defaultOptions EXCEPT !.mimicChromeHar = TRUE] })

NextCookies ==
  \/ CookiesSendRequest
  \/ CookiesRequestInfo
  \/ CookiesReceiveResponse
  \/ CookiesResponseInfo
  \/ GetHarArchive

SpecCookies == InitCookies /\ [][NextCookies]_vars

\* ------------------------------------------------------------------ C19

\* the blockedCookies items of Network.responseReceivedExtraInfo, and the
\* names of those that have a blocked reason
BlockedCookiesOf(b) ==
  IF b.responseReceivedExtraInfoEvent = undefined THEN <<>>
  ELSE b.responseReceivedExtraInfoEvent[1].blockedCookies

BlockedNamesOf(b) ==
  { c.name : c \in { d \in Range(BlockedCookiesOf(b)) : d.blockedReasons >= 1 } }

\* the associated cookies of Network.requestWillBeSentExtraInfo that have
\* no blocked reason, as cookie records
SentAssociatedCookiesOf(b) ==
  IF b.requestWillBeSentExtraInfoEvent = undefined THEN {}
  ELSE { [ name |-> a.name, value |-> a.value ] :
           a \in { c \in Range(b.requestWillBeSentExtraInfoEvent[1].associatedCookies) :
                     c.blockedReasons = 0 } }

\* the cookies of the Cookie request header
HeaderCookiesOf(b) ==
  IF requestCookieHeader(b, options) = undefined THEN {}
  ELSE Range(parseRequestCookies(requestCookieHeader(b, options)[1]))

SetCookieHeaderOf(b) ==
  LET resp == b.responseReceivedEvent[1].response[1]
      extra == b.responseReceivedExtraInfoEvent
  IN getHeaderValue(IF ~options.mimicChromeHar /\ extra # undefined
                    THEN extra[1].headers ELSE resp.headers,
                    "Set-Cookie")

\* C20: response.cookies of an entry are exactly the cookies parsed from
\* the newline-delimited Set-Cookie response header whose name is not the
\* name of a blockedCookies item of Network.responseReceivedExtraInfo that
\* has at least one blocked reason, each once and in the order of the
\* header.
C20_ResponseCookies ==
  \A k \in 1..Len(Entries) :
    LET b == BuilderOf(Entries[k])
        header == SetCookieHeaderOf(b)
        parsed == IF header = undefined THEN <<>> ELSE parseResponseCookies(header[1])
    IN Entries[k].response.cookies
         = SelectSeq(parsed, LAMBDA c : c.name \notin BlockedNamesOf(b))

\* the header sets s1 and s2, s2 is blocked with a reason: only s1 is left
C20_Witness ==
  /\ Len(Entries) = 1
  /\ SetCookieHeaderOf(BuilderOf(Entries[1])) = Some("s1=1\ns2=2")
  /\ BlockedCookiesOf(BuilderOf(Entries[1])) = << [ name |-> "s2", blockedReasons |-> 1 ] >>
  /\ Entries[1].response.cookies = << [name |-> "s1", value |-> "1"] >>


\* ------------------------------------------------------------------ the phases of a request

\* the most events delivered in SpecTimings
MaxTimingEvents == 2

\* a start and an end offset: both absent, both -1 (the phase did not
\* happen), the end after the start, the end before the start, the start
\* the same as the end, the end absent
PhaseOffsets ==
  { <<undefined, undefined>>, <<Some(-1), Some(-1)>>, <<Some(1000), Some(3250)>>,
    <<Some(3000), Some(1000)>>, <<Some(2000), Some(2000)>>, <<Some(1000), undefined>> }

TimingsRequest == RequestWillBeSent("X", 1000, 51700, undefined, Url("https", "X"))

\* responses without a timing object, and with one whose phases have each
\* their offsets; the connection and its TLS handshake share theirs
TimingsResponses ==
  { ResponseReceived("X", Response(200, undefined, FALSE, FALSE, <<>>)) }
  \cup
  { ResponseReceived("X",
      Response(200,
        Some([ Timing(1300, 0) EXCEPT
                 !.dnsStart = dns[1], !.dnsEnd = dns[2],
                 !.connectStart = connect[1], !.connectEnd = connect[2],
                 !.sslStart = connect[1], !.sslEnd = connect[2],
                 !.sendStart = send[1], !.sendEnd = send[2],
                 !.receiveHeadersEnd = receiveHeadersEnd ]),
        FALSE, FALSE, <<>>)) :
      dns \in PhaseOffsets, connect \in PhaseOffsets, send \in PhaseOffsets,
      receiveHeadersEnd \in { -1, 500, 4000 } }

DeliverTimings(event) ==
  /\ OnDebuggerEventWithin(event.name, event, MaxTimingEvents)
  /\ UNCHANGED delivered

TimingsSendRequest == calls = 0 /\ DeliverTimings(TimingsRequest)

TimingsReceiveResponse ==
  calls = 0 /\ \E event \in TimingsResponses : DeliverTimings(event)

InitTimings == Constructed({ defaultOptions })

NextTimings ==
  \/ TimingsSendRequest
  \/ TimingsReceiveResponse
  \/ GetHarArchive

SpecTimings == InitTimings /\ [][NextTimings]_vars

\* ------------------------------------------------------------------ C21

\* the start and the end offset of each phase in the timing object of the
\* response of a builder; both are absent when there is no timing object
PhaseEnds(b) ==
  LET t == b.responseReceivedEvent[1].response[1].timing
      none == <<undefined, undefined>>
  IN IF t = undefined
     THEN [ dns |-> none, connect |-> none, send |-> none, wait |-> none, ssl |-> none ]
     ELSE [ dns |-> <<t[1].dnsStart, t[1].dnsEnd>>,
            connect |-> <<t[1].connectStart, t[1].connectEnd>>,
            send |-> <<t[1].sendStart, t[1].sendEnd>>,
            wait |-> <<t[1].sendEnd, Some(t[1].receiveHeadersEnd)>>,
            ssl |-> <<t[1].sslStart, t[1].sslEnd>> ]

\* an offset that is missing or negative stands for no offset
IsAbsent(offset) == offset = undefined \/ offset[1] < 0

\* what a phase is reported as: end minus start, and the given value when
\* an endpoint is absent or the end is before the start
Reported(ends, whenUnknown) ==
  IF IsAbsent(ends[1]) \/ IsAbsent(ends[2]) THEN whenUnknown
  ELSE IF ends[2][1] - ends[1][1] < 0 THEN whenUnknown
  ELSE ends[2][1] - ends[1][1]

\* C21 as stated: in an entry's timings each of dns, connect, send, wait
\* and ssl is the difference end minus start of its pair of timing offsets,
\* and -1 whenever an endpoint is absent or the difference would be
\* negative.
C21_EveryPhaseUnknownIsMinusOne ==
  \A k \in 1..Len(Entries) :
    \A phase \in { "dns", "connect", "send", "wait", "ssl" } :
      Entries[k].timings[phase]
        = Reported(PhaseEnds(BuilderOf(Entries[k]))[phase], -1)

\* C21, amended: in an entry's timings each of dns, connect, send, wait and
\* ssl is the difference end minus start of its pair of timing offsets;
\* whenever an endpoint is absent or the difference would be negative, dns,
\* connect and ssl are -1, and send and wait are 0.
C21_PhaseDifferences ==
  \A k \in 1..Len(Entries) :
    \A phase \in { "dns", "connect", "send", "wait", "ssl" } :
      Entries[k].timings[phase]
        = Reported(PhaseEnds(BuilderOf(Entries[k]))[phase],
                   IF phase \in { "send", "wait" } THEN 0 ELSE -1)

\* an entry whose dns phase has its difference, whose connection was not
\* made (-1) and whose send offsets are the wrong way round (0)
C21_Witness ==
  /\ Len(Entries) = 1
  /\ PhaseEnds(BuilderOf(Entries[1])).dns = <<Some(1000), Some(3250)>>
  /\ PhaseEnds(BuilderOf(Entries[1])).connect = <<Some(-1), Some(-1)>>
  /\ PhaseEnds(BuilderOf(Entries[1])).send = <<Some(3000), Some(1000)>>
  /\ Entries[1].timings.dns = 2250
  /\ Entries[1].timings.connect = -1
  /\ Entries[1].timings.ssl = -1
  /\ Entries[1].timings.send = 0


\* ------------------------------------------------------------------ load events and the pages they go to

\* the most events delivered in SpecLoad
MaxLoadEvents == 4

\* two load events and two DOM content events, told apart by their time
LoadEvents ==
  { [ Event(kind, "") EXCEPT !.timestamp = fired ] :
      kind \in { "Page.loadEventFired", "Page.domContentEventFired" },
      fired \in { 2900, 3000 } }

LoadFrameEvents ==
  { PageEvent("Page.frameStartedLoading", "F1"),
    PageEvent("Page.frameStartedLoading", "F2") }

LoadRequest == RequestWillBeSent("X", 1000, 51700, undefined, Url("https", "X"))

LoadResponse ==
  ResponseReceived("X", Response(200, Some(Timing(1300, 0)), FALSE, FALSE, <<>>))

DeliverLoad(event) ==
  /\ OnDebuggerEventWithin(event.name, event, MaxLoadEvents)
  /\ UNCHANGED delivered

FireLoadEvent == received < MaxLoadEvents /\ \E event \in LoadEvents : DeliverLoad(event)

LoadFrame == received < MaxLoadEvents /\ \E event \in LoadFrameEvents : DeliverLoad(event)

LoadSendRequest == received < MaxLoadEvents /\ DeliverLoad(LoadRequest)

LoadReceiveResponse == received < MaxLoadEvents /\ DeliverLoad(LoadResponse)

InitLoad == Constructed({ defaultOptions })

NextLoad ==
  \/ FireLoadEvent
  \/ LoadFrame
  \/ LoadSendRequest
  \/ LoadReceiveResponse
  \/ GetHarArchive

SpecLoad == InitLoad /\ [][NextLoad]_vars

\* ------------------------------------------------------------------ C22

\* the field of a page that holds an event of the given kind
LoadFieldOf(event) ==
  IF event.name = "Page.loadEventFired" THEN "loadEventFiredEvent"
  ELSE "domContentEventFiredEvent"

\* C22: Page.loadEventFired and Page.domContentEventFired are recorded on
\* the page created last before the event is delivered, in the place of an
\* earlier event of the same kind on that page, and on no other page; they
\* change nothing when there is no page yet; and a page created later
\* starts without them.
C22_LoadEventsOnNewestPage ==
  [][LET before == pagesBuilder.pageStackWithTopAtIndex0
         after == pagesBuilder'.pageStackWithTopAtIndex0
         created == Len(after) - Len(before)
     IN /\ \A event \in LoadEvents :
             DeliverLoad(event) =>
               IF before = <<>> THEN pagesBuilder' = pagesBuilder
               ELSE \E newest \in 1..Len(before) :
                      /\ \A k \in 1..Len(before) :
                           before[k].serial <= before[newest].serial
                      /\ after = [before EXCEPT ![newest][LoadFieldOf(event)] = Some(event)]
        /\ \A k \in 1..created :
             /\ after[k].loadEventFiredEvent = undefined
             /\ after[k].domContentEventFiredEvent = undefined]_vars

\* the load event of time 3000 took the place of the one of time 2900 on the
\* page of F2, made after the page of F1, which has none
C22_Witness ==
  /\ received = 4
  /\ Len(pagesBuilder.pageStackWithTopAtIndex0) = 2
  /\ pagesBuilder.pageStackWithTopAtIndex0[1].frameIds = <<"F2">>
  /\ pagesBuilder.pageStackWithTopAtIndex0[1].loadEventFiredEvent # undefined
  /\ pagesBuilder.pageStackWithTopAtIndex0[1].loadEventFiredEvent[1].timestamp = 3000
  /\ pagesBuilder.pageStackWithTopAtIndex0[2].frameIds = <<"F1">>
  /\ pagesBuilder.pageStackWithTopAtIndex0[2].loadEventFiredEvent = undefined


\* ------------------------------------------------------------------ chains of redirects

\* the most events delivered in SpecRedirect
MaxRedirectEvents == 5

\* requests for X: the first one, and two that carry the response that
\* redirected the one before
RedirectRequests ==
  { RequestWillBeSent("X", 1000, 51700, undefined, Url("https", "A")),
    [ RequestWillBeSent("X", 1200, 51900, undefined, Url("https", "B")) EXCEPT
        !.redirectResponse = Some(Response(301, Some(Timing(1100, 0)), FALSE, FALSE, <<>>)) ],
    [ RequestWillBeSent("X", 1400, 52100, undefined, Url("https", "C")) EXCEPT
        !.redirectResponse = Some(Response(302, Some(Timing(1300, 0)), FALSE, FALSE, <<>>)) ] }

\* the other events for X
RedirectOthers ==
  { ResponseReceived("X", Response(200, Some(Timing(1500, 0)), FALSE, FALSE, <<>>)),
    [ Event("Network.loadingFinished", "X") EXCEPT !.timestamp = 2600 ],
    [ Event("Network.resourceChangedPriority", "X") EXCEPT !.newPriority = "High" ] }

\* a request of another id
RedirectBystander == RequestWillBeSent("Y", 1100, 51800, undefined, Url("https", "Y"))

DeliverRedirect(event) ==
  /\ OnDebuggerEventWithin(event.name, event, MaxRedirectEvents)
  /\ delivered' = Append(delivered, event)

RedirectSendRequest ==
  calls = 0 /\ \E event \in RedirectRequests : DeliverRedirect(event)

RedirectOtherEvent ==
  calls = 0 /\ \E event \in RedirectOthers : DeliverRedirect(event)

RedirectSendBystander == calls = 0 /\ DeliverRedirect(RedirectBystander)

InitRedirect == Constructed({ defaultOptions })

NextRedirect ==
  \/ RedirectSendRequest
  \/ RedirectOtherEvent
  \/ RedirectSendBystander
  \/ GetHarArchive

SpecRedirect == InitRedirect /\ [][NextRedirect]_vars

\* ------------------------------------------------------------------ C23

\* the Network.requestWillBeSent events delivered for X, in their order
RequestsSentForX ==
  SelectSeq(delivered,
            LAMBDA e : e.name = "Network.requestWillBeSent" /\ e.requestId = "X")

\* the positions, in creation order, of the accumulators that hold a
\* Network.requestWillBeSent event for X
AccumulatorsOfX ==
  LET all == entriesBuilder.allEntryBuilders
      RECURSIVE From(_)
      From(i) ==
        IF i > Len(all) THEN <<>>
        ELSE IF all[i]._requestWillBeSentEvent # undefined
                  /\ all[i]._requestWillBeSentEvent[1].requestId = "X"
        THEN <<i>> \o From(i + 1)
        ELSE From(i + 1)
  IN From(1)

\* the field of an accumulator that holds an event of the given name
FieldOf(eventName) ==
  CASE eventName = "Network.responseReceived" -> "responseReceivedEvent"
    [] eventName = "Network.loadingFinished" -> "loadingFinishedEvent"
    [] eventName = "Network.resourceChangedPriority" -> "resourceChangedPriorityEvent"

\* C23: for a request id that received n Network.requestWillBeSent events
\* there are n accumulators; the accumulator of the k-th event has
\* priorRedirects = k - 1; only the accumulator of the last event is in the
\* request id index; and every later event for the id is stored on that
\* accumulator and changes no earlier one.
C23_RedirectChain ==
  /\ [](LET n == Len(RequestsSentForX)
            accs == AccumulatorsOfX
            all == entriesBuilder.allEntryBuilders
        IN n >= 1 =>
             /\ Len(accs) = n
             /\ \A i \in 1..Len(all) :
                  all[i]._requestWillBeSentEvent = undefined => i \notin Range(accs)
             /\ \A k \in 1..n :
                  /\ all[accs[k]]._requestWillBeSentEvent
                       = Some([RequestsSentForX[k] EXCEPT !.redirectResponse = undefined])
                  /\ all[accs[k]].priorRedirects = k - 1
             /\ entriesBuilder.entryBuildersByRequestId["X"] = accs[n])
  /\ [][\A event \in RedirectOthers :
          (DeliverRedirect(event) /\ Len(RequestsSentForX) >= 1) =>
            LET last == AccumulatorsOfX[Len(AccumulatorsOfX)]
            IN entriesBuilder'.allEntryBuilders =
                 [entriesBuilder.allEntryBuilders EXCEPT
                    ![last][FieldOf(event.name)] = Some(event)]]_vars

\* three requests for X were sent, then the response came: three
\* accumulators, the response on the third and on no other
C23_Witness ==
  /\ Len(RequestsSentForX) = 3
  /\ delivered[Len(delivered)].name = "Network.responseReceived"
  /\ Len(AccumulatorsOfX) = 3
  /\ entriesBuilder.allEntryBuilders[AccumulatorsOfX[3]].priorRedirects = 2
  /\ entriesBuilder.allEntryBuilders[AccumulatorsOfX[3]].responseReceivedEvent # undefined
  /\ entriesBuilder.allEntryBuilders[AccumulatorsOfX[1]].responseReceivedEvent = undefined
  /\ entriesBuilder.allEntryBuilders[AccumulatorsOfX[2]].responseReceivedEvent = undefined


\* ------------------------------------------------------------------ the TimeLord's pairs

\* the most pairs recorded in SpecTimeLord
MaxTimeLordEvents == 4

\* the timestamps of the pairs, and the timestamps estimates are asked for
TimeLordTimestamps == { 1000, 1200, 1400, 1600 }

\* the wall clock minus the timestamp, as the events report it
TimeLordOffsets == { 50000, 50700 }

\* a request whose timestamp no recorded pair has
TimeLordRequests(r) ==
  { RequestWillBeSent(r, t, t + offset, undefined, Url("https", "A")) :
      t \in { u \in TimeLordTimestamps :
                \A i \in 1..Len(delivered) : delivered[i].timestamp # u },
      offset \in TimeLordOffsets }

DeliverTimeLord(event) ==
  /\ OnDebuggerEventWithin(event.name, event, MaxTimeLordEvents)
  /\ delivered' = Append(delivered, event)

\* each Network.requestWillBeSent event records its pair
TimeLordAddPairX ==
  calls = 0 /\ \E event \in TimeLordRequests("X") : DeliverTimeLord(event)

TimeLordAddPairY ==
  calls = 0 /\ \E event \in TimeLordRequests("Y") : DeliverTimeLord(event)

InitTimeLord == Constructed({ defaultOptions })

NextTimeLord ==
  \/ TimeLordAddPairX
  \/ TimeLordAddPairY

SpecTimeLord == InitTimeLord /\ [][NextTimeLord]_vars

\* ------------------------------------------------------------------ C24

\* the recorded pair of the smallest timestamp
EarliestPair ==
  CHOOSE e \in Range(delivered) :
    \A other \in Range(delivered) : e.timestamp <= other.timestamp

\* C24: after pairs of pairwise distinct timestamps were recorded, in
\* whatever order, the estimate for a timestamp t is t plus the wall time
\* minus the timestamp of the pair of the smallest timestamp, and the
\* estimate of a smaller timestamp is not greater than that of a larger.
C24_EstimateFromEarliestPair ==
  Len(delivered) >= 1 =>
    /\ \A t \in TimeLordTimestamps :
         getApproximateWallTime(entriesBuilder.timelord, t)
           = t + (EarliestPair.wallTime - EarliestPair.timestamp)
    /\ \A t1, t2 \in TimeLordTimestamps :
         t1 < t2 =>
           getApproximateWallTime(entriesBuilder.timelord, t1)
             <= getApproximateWallTime(entriesBuilder.timelord, t2)

\* the pair of the smallest timestamp was recorded last, after pairs of
\* another offset
C24_Witness ==
  /\ Len(delivered) = 3
  /\ delivered[3] = EarliestPair
  /\ delivered[1].wallTime - delivered[1].timestamp = 50000
  /\ delivered[2].wallTime - delivered[2].timestamp = 50000
  /\ delivered[3].wallTime - delivered[3].timestamp = 50700
  /\ getApproximateWallTime(entriesBuilder.timelord, 1600) = 52300


\* ------------------------------------------------------------------ C25

\* the pages whose earliest accumulator has a Network.requestWillBeSent
\* event and no response of either kind
PagesTimedWithoutResponse ==
  { j \in 1..Len(pagesBuilder.pageStackWithTopAtIndex0) :
      LET page == pagesBuilder.pageStackWithTopAtIndex0[j]
      IN /\ isValid(page)
         /\ isValidForPageTimeCalculations(earliestRequest(entriesBuilder, page))
         /\ _response(earliestRequest(entriesBuilder, page)) = undefined }

\* C25: a page whose earliest accumulator has a Network.requestWillBeSent
\* event and no response is valid and is in the pages of the archive, with
\* the startedDateTime, the title and the pageTimings that this accumulator
\* gives: the time of its event, its url, and the load events' distance
\* from its timestamp.
C25_PageTimedWithoutResponse ==
  calls = 1 =>
    \A j \in PagesTimedWithoutResponse :
      LET page == pagesBuilder.pageStackWithTopAtIndex0[j]
          b == earliestRequest(entriesBuilder, page)
      IN /\ archive.returned
         /\ page.id # undefined
         /\ \E k \in 1..Len(archive.pages) :
              /\ archive.pages[k].id = page.id[1]
              /\ archive.pages[k].startedDateTime
                   = getApproximateWallTime(entriesBuilder.timelord, timestamp(b)) \div 1000
              /\ archive.pages[k].title = title(entriesBuilder, page)
              /\ archive.pages[k].pageTimings = pageTimings(entriesBuilder, page)


\* ------------------------------------------------------------------ web socket frames

\* the most events delivered in SpecWebSocket
MaxWebSocketEvents == 4

\* DevToolsProtocol.Network.WebSocketFrame
WebSocketFrame(opcode, payloadData) ==
  [ opcode |-> opcode, payloadData |-> payloadData ]

\* frames of X sent and received: a continuation frame, a text frame and a
\* binary frame
WebSocketFrames ==
  { [ Event(frameEvent, "X") EXCEPT
        !.timestamp = IF frameEvent = "Network.webSocketFrameSent" THEN 3000 ELSE 3100,
        !.response = Some(frame) ] :
      frameEvent \in { "Network.webSocketFrameSent", "Network.webSocketFrameReceived" },
      frame \in { WebSocketFrame(0, "AA=="), WebSocketFrame(1, "hi"),
                  WebSocketFrame(2, "AQ==") } }

\* the request of X, over a web socket or over https
WebSocketRequests ==
  { RequestWillBeSent("X", 1000, 51700, undefined, Url(scheme, "X")) :
      scheme \in { "wss", "https" } }

WebSocketResponse ==
  ResponseReceived("X", Response(101, Some(Timing(2400, 0)), FALSE, FALSE, <<>>))

WebSocketOptions ==
  { defaultOptions, [defaultOptions EXCEPT !.mimicChromeHar = TRUE] }

DeliverWebSocket(event) ==
  /\ OnDebuggerEventWithin(event.name, event, MaxWebSocketEvents)
  /\ delivered' = Append(delivered, event)

WebSocketFrameEvent ==
  calls = 0 /\ \E event \in WebSocketFrames : DeliverWebSocket(event)

\* X is requested once
WebSocketSendRequest ==
  /\ calls = 0
  /\ \A k \in 1..Len(delivered) : delivered[k].name # "Network.requestWillBeSent"
  /\ \E event \in WebSocketRequests : DeliverWebSocket(event)

WebSocketReceiveResponse == calls = 0 /\ DeliverWebSocket(WebSocketResponse)

InitWebSocket == Constructed(WebSocketOptions)

NextWebSocket ==
  \/ WebSocketFrameEvent
  \/ WebSocketSendRequest
  \/ WebSocketReceiveResponse
  \/ GetHarArchive

SpecWebSocket == InitWebSocket /\ [][NextWebSocket]_vars

\* ------------------------------------------------------------------ C26

\* the frame events delivered for X, in their order
FramesOfX ==
  SelectSeq(delivered,
            LAMBDA e : e.name \in { "Network.webSocketFrameSent",
                                    "Network.webSocketFrameReceived" })

\* C26: when mimicChromeHar is false, the _webSocketMessages of the entry
\* of X has one message for each frame event delivered for X, in the order
\* of delivery, of type 'send' for a frame sent and 'receive' for a frame
\* received, and of opcode 1 when the frame has opcode 1 and 2 otherwise;
\* when mimicChromeHar is true the entry has no _webSocketMessages.
C26_WebSocketMessages ==
  \A k \in 1..Len(Entries) :
    IF options.mimicChromeHar
    THEN Entries[k]._webSocketMessages = undefined
    ELSE Len(FramesOfX) >= 1 =>
           /\ Entries[k]._webSocketMessages # undefined
           /\ Len(Entries[k]._webSocketMessages[1]) = Len(FramesOfX)
           /\ \A m \in 1..Len(FramesOfX) :
                LET message == Entries[k]._webSocketMessages[1][m]
                    frame == FramesOfX[m]
                IN /\ message.type =
                        (IF frame.name = "Network.webSocketFrameSent"
                         THEN "send" ELSE "receive")
                   /\ message.opcode =
                        (IF frame.response[1].opcode = 1 THEN 1 ELSE 2)
                   /\ message.time = frame.timestamp
                   /\ message.data = frame.response[1].payloadData

\* the entry of X over wss has two messages: a continuation frame received,
\* given opcode 2, then a text frame sent
C26_Witness ==
  /\ ~options.mimicChromeHar
  /\ Len(Entries) = 1
  /\ Len(FramesOfX) = 2
  /\ FramesOfX[1].name = "Network.webSocketFrameReceived"
  /\ FramesOfX[1].response[1].opcode = 0
  /\ FramesOfX[2].name = "Network.webSocketFrameSent"
  /\ FramesOfX[2].response[1].opcode = 1
  /\ Entries[1]._webSocketMessages[1][1].opcode = 2
  /\ Entries[1]._webSocketMessages[1][2].type = "send"


\* ------------------------------------------------------------------ C27

\* the events in their order, an event delivered again left out
RECURSIVE WithoutRedeliveries(_)
WithoutRedeliveries(events) ==
  IF events = <<>> THEN <<>>
  ELSE LET front == SubSeq(events, 1, Len(events) - 1)
           last == events[Len(events)]
       IN IF \E k \in 1..Len(front) : front[k] = last
          THEN WithoutRedeliveries(front)
          ELSE Append(WithoutRedeliveries(front), last)

\* the entries of an archive for request id X
EntriesOfX(a) ==
  IF a.returned /\ a.entries # undefined
  THEN SelectSeq(a.entries[1],
                 LAMBDA e : a.hb.entriesBuilder.allEntryBuilders[e.builder]
                              ._requestWillBeSentEvent[1].requestId = "X")
  ELSE <<>>

\* C27: when Network.requestWillBeSent and Network.responseReceived events
\* of a request id are delivered again, the archive has as many entries for
\* the request id as the archive of the same events delivered once each.
C27_RedeliveryKeepsEntryCount ==
  LET once == fromUntypedEventNameAndObjectTuples(WithoutRedeliveries(delivered), options)
  IN (calls = 1 /\ once.returned
        /\ \A k \in 1..Len(delivered) :
             delivered[k].name \in { "Network.requestWillBeSent",
                                     "Network.responseReceived" })
     => /\ archive.returned
        /\ Len(Entries) = Len(EntriesOfX(once))


\* ------------------------------------------------------------------ C28

\* C28: after Network.requestWillBeSent and Network.responseReceived events
\* of one request id, delivered in any order, no accumulator holds both a
\* Network.responseReceived event and a redirectResponse, so that the
\* _response getter does not throw 'Unexpected state with event having two
\* types of responses.' and getHarArchive does not fail with it.
C28_NeverTwoTypesOfResponses ==
  (\A k \in 1..Len(delivered) :
     /\ delivered[k].name \in { "Network.requestWillBeSent", "Network.responseReceived" }
     /\ delivered[k].requestId = "X")
  => /\ \A i \in 1..Len(entriesBuilder.allEntryBuilders) :
          ~responseThrowsTwoTypes(entriesBuilder.allEntryBuilders[i])
     /\ archive.error # TwoTypesError


\* ------------------------------------------------------------------ C29

C30_FrameIdOfOnePage ==
  \A f \in FrameKeys :
    \A j \in 1..Len(pagesBuilder.pageStackWithTopAtIndex0) :
      LET page == pagesBuilder.pageStackWithTopAtIndex0[j]
      IN f \in Range(page.frameIds) <=> pagesBuilder.byFrameId[f] = page.serial

====
